---- MODULE Spec2Model ----
(***************************************************************************)
(* Image-upload lifecycle of the content-management API: the project,     *)
(* team-member and service routes, the storage service they call, the     *)
(* document database and the object-storage bucket.                       *)
(*                                                                         *)
(* A request handler is an async function; every await is a suspension    *)
(* point, so a handler is modelled as a sequence of steps, one per await.  *)
(* req[p] is the handler's frame (its local variables and its position).   *)
(* An uploaded file's public URL is a positive integer (the storage key    *)
(* generateUniqueFilename produced for it); 0 is a URL outside the bucket  *)
(* (the schema's placeholder, or a URL typed into the request body).       *)
(*                                                                         *)
(* The route modules share no state but the bucket, where their keys have  *)
(* different prefixes (projects/, team/, services/), so a run serves the   *)
(* requests of one route module, named by scope.                           *)
(*                                                                         *)
(* The admin registration route, the admin routes of the leads and the     *)
(* text of storage keys and public URLs have specifications of their own.  *)
(***************************************************************************)
EXTENDS Integers, Sequences, FiniteSets, TLC

VARIABLES scope, store, nextUrl, projects, members, services, req, pending, up,
          courses, call, admins, leads, lreq, keyop

vars == <<scope, store, nextUrl, projects, members, services, req, pending, up,
          courses, call, admins, leads, lreq, keyop>>

----------------------------------------------------------------------------
(* Bounds of the model *)

MaxUrls == 3           \* uploads that succeed in one run
MaxGalleryFiles == 2   \* galleryFiles sent with one request
MaxBatch == 3          \* URLs in one deleteFiles call made on its own
BufferLengths == {102399, 102400, 409600}   \* bytes of an uploaded buffer

(* Constants of the program *)

Placeholder == 0       \* a URL that does not contain the bucket path
NoUrl == -1            \* null / undefined
Origin == -2           \* what precedes the bucket path in a public URL
retries == 3           \* uploadFile's default number of attempts
CompressFrom == 102400 \* bytes from which _compressImage compresses (100 KB)

ProjectIds == {1}
MemberIds == {1}
ServiceIds == {1}
CourseIds == {1}

----------------------------------------------------------------------------
(* Helpers *)

SeqToSet(s) == {s[i] : i \in 1..Len(s)}

Count(s, u) == Cardinality({i \in 1..Len(s) : s[i] = u})

\* all sequences without repetition over the set S
RECURSIVE Arrangements(_)
Arrangements(S) ==
  {<<>>} \cup UNION {{<<x>> \o t : t \in Arrangements(S \ {x})} : x \in S}

\* an entry of a handler's log: e is "upload", "uploadFail", "dbOk", "dbFail"
\* or "delete"; urls are the URLs uploaded or handed to the delete call; site
\* is the place in the handler; out is the store's answer to a delete
\* ("later" for a call that is not awaited)
Ev(e, urls, site) == [e |-> e, urls |-> urls, site |-> site, out |-> "none"]

Del(urls, site, out) == [e |-> "delete", urls |-> urls, site |-> site, out |-> out]

Answer(ok) == IF ok THEN "ok" ELSE "fail"

\* url.split(`${bucket}/`) has more than one part; url.includes('supabase')
InBucket(url) == url > Placeholder

Truthy(url) == url # NoUrl

----------------------------------------------------------------------------
(* Documents *)

NoProject == [mainImage |-> NoUrl, images |-> <<>>, status |-> "absent"]
NoMember == [image |-> NoUrl, present |-> FALSE]
NoService == [icon |-> NoUrl, present |-> FALSE]
NoCourse == [image |-> NoUrl, present |-> FALSE]

\* new Project(projectData): schema defaults fill what projectData leaves out
NewProject(mainImage, images) ==
  [mainImage |-> IF Truthy(mainImage) THEN mainImage ELSE Placeholder,
   images |-> images, status |-> "active"]

----------------------------------------------------------------------------
(* The frame of a handler.  Project handlers: mainImageFile, galleryFiles  *)
(* (files still to upload), existingImages, uploadedUrls, project (the     *)
(* document read), mainImage (the new main image), oldMainImage,           *)
(* finalImages, imagesToDeleteLater.  Team and service handlers: file      *)
(* (req.file), bodyUrl (req.body.image / req.body.icon), uploadedUrl       *)
(* (uploadedImageUrl / newImageUrl / uploadedIconUrl), oldUrl (oldImageUrl *)
(* / oldIconUrl), url (imageUrl / updateData.image / iconUrl), updated     *)
(* (findByIdAndUpdate returned a document), error (what was thrown).       *)
(* List and search handlers: found (the ids of the projects returned).     *)
(* log is the history of the handler's uploads, database calls and delete  *)
(* calls, in order.                                                        *)

IdleReq ==
  [kind |-> "none", pc |-> "idle", id |-> 0,
   mainImageFile |-> FALSE, galleryFiles |-> 0, existingImages |-> <<>>,
   badBody |-> FALSE, permanent |-> FALSE,
   file |-> FALSE, bodyUrl |-> NoUrl, missing |-> FALSE,
   uploadedUrls |-> <<>>, project |-> NoProject, mainImage |-> NoUrl,
   oldMainImage |-> NoUrl, finalImages |-> <<>>, imagesToDeleteLater |-> <<>>,
   uploadedUrl |-> NoUrl, oldUrl |-> NoUrl, url |-> NoUrl,
   updated |-> FALSE, error |-> "none", found |-> {}, adminCount |-> 0,
   status |-> 0, log |-> <<>>]

Free(p) == req[p].pc \in {"idle", "done"}

At(p, kind, pc) == req[p].kind = kind /\ req[p].pc = pc

Done(r, status) == [r EXCEPT !.pc = "done", !.status = status]

----------------------------------------------------------------------------
(* services/supabaseService.js *)

\* storage.from(bucket).remove(paths): ok = the store answered without error
remove(st, paths, ok) == IF ok THEN st \ SeqToSet(paths) ELSE st

\* url.split(`${this.bucket}/`): a URL of the bucket falls into what precedes
\* the bucket path and the storage key, any other URL stays in one part
split(url) == IF InBucket(url) THEN <<Origin, url>> ELSE <<url>>

\* the map of deleteFiles with deleteFile's pop() and no filter
deleteFilesPathsLast(urls) ==
  [i \in 1..Len(urls) |-> split(urls[i])[Len(split(urls[i]))]]

\* deleteFiles's map and filter: parts[1] of every URL that has more than one
\* part, in the order of urls
deleteFilesPaths(urls) ==
  LET mapped == [i \in 1..Len(urls) |->
                   IF Len(split(urls[i])) > 1 THEN split(urls[i])[2] ELSE NoUrl]
  IN SelectSeq(mapped, Truthy)

\* deleteFiles(urls): one batch remove of the keys of the URLs that carry the
\* bucket path; url.split of a null element throws into the catch
deleteFiles(st, urls, ok) ==
  IF Len(urls) = 0 THEN st
  ELSE IF \E i \in 1..Len(urls) : ~Truthy(urls[i]) THEN st
  ELSE LET paths == deleteFilesPaths(urls)
       IN IF Len(paths) > 0 THEN remove(st, paths, ok) ELSE st

\* deleteFile's path: the last part of the split URL
deleteFilePath(fileUrl) == split(fileUrl)[Len(split(fileUrl))]

\* deleteFile(fileUrl): remove of the last part of the split URL
deleteFile(st, fileUrl, ok) ==
  IF ~Truthy(fileUrl) THEN st ELSE remove(st, <<deleteFilePath(fileUrl)>>, ok)

----------------------------------------------------------------------------
(* services/supabaseService.js: deleteFile and deleteFiles, step by step.   *)
(* call is the frame of one call: fn is the function, given says that the   *)
(* argument is not null, urls is the argument (for deleteFile the one URL), *)
(* paths is what is handed to remove, removes lists the remove calls made,  *)
(* out is the store's answer, pc is "returned" when the call completed and  *)
(* "raised" when it threw to its caller.                                    *)

IdleCall ==
  [fn |-> "none", pc |-> "idle", given |-> FALSE, urls |-> <<>>,
   paths |-> <<>>, removes |-> <<>>, out |-> "none"]

\* the URL values a caller can pass
UrlInputs == {NoUrl, Placeholder} \cup (1..MaxUrls)

\* the arrays of at most n URL values
RECURSIVE UrlLists(_)
UrlLists(n) ==
  IF n = 0 THEN {<<>>}
  ELSE UrlLists(n - 1) \cup
         {Append(l, u) : l \in {k \in UrlLists(n - 1) : Len(k) = n - 1},
                         u \in UrlInputs}

\* deleteFile(fileUrl) is called: returns at once for an empty URL
DeleteFileCall ==
  /\ scope = "storage"
  /\ call.pc \in {"idle", "returned", "raised"}
  /\ \E fileUrl \in UrlInputs :
       call' = IF ~Truthy(fileUrl)
               THEN [IdleCall EXCEPT !.fn = "deleteFile", !.pc = "returned",
                       !.given = TRUE, !.urls = <<fileUrl>>]
               ELSE [IdleCall EXCEPT !.fn = "deleteFile", !.pc = "remove",
                       !.given = TRUE, !.urls = <<fileUrl>>,
                       !.paths = <<deleteFilePath(fileUrl)>>]
  /\ UNCHANGED <<scope, store, nextUrl, projects, members, services, req, pending, up, courses, admins, leads, lreq, keyop>>

\* deleteFiles(urls) is called: returns at once for no or an empty array, and
\* from its catch when url.split throws; calls remove when a path is left
DeleteFilesCall ==
  /\ scope = "storage"
  /\ call.pc \in {"idle", "returned", "raised"}
  /\ \E given \in BOOLEAN, urls \in UrlLists(MaxBatch) :
       /\ ~given => urls = <<>>
       /\ call' =
            IF ~given \/ Len(urls) = 0
                 \/ (\E i \in 1..Len(urls) : ~Truthy(urls[i]))
                 \/ Len(deleteFilesPaths(urls)) = 0
            THEN [IdleCall EXCEPT !.fn = "deleteFiles", !.pc = "returned",
                    !.given = given, !.urls = urls]
            ELSE [IdleCall EXCEPT !.fn = "deleteFiles", !.pc = "remove",
                    !.given = given, !.urls = urls,
                    !.paths = deleteFilesPaths(urls)]
  /\ UNCHANGED <<scope, store, nextUrl, projects, members, services, req, pending, up, courses, admins, leads, lreq, keyop>>

\* a catch that throws again what the store threw
afterRemoveRethrows(fn, out) == IF out = "throw" THEN "raised" ELSE "returned"

\* after the awaited remove: deleteFile logs an error result, deleteFiles
\* throws it into its own catch; both catches log and return
afterRemove(fn, out) ==
  LET caught == out = "throw" \/ (fn = "deleteFiles" /\ out = "error")
  IN IF caught THEN "returned" ELSE "returned"

\* await storage.from(bucket).remove(paths)
StoreRemove ==
  /\ call.pc = "remove"
  /\ \E out \in {"ok", "error", "throw"} :
       /\ store' = remove(store, call.paths, out = "ok")
       /\ call' = [call EXCEPT !.pc = afterRemove(call.fn, out), !.out = out,
                     !.removes = Append(@, call.paths)]
  /\ UNCHANGED <<scope, nextUrl, projects, members, services, req, pending, up, courses, admins, leads, lreq, keyop>>

----------------------------------------------------------------------------
(* services/supabaseService.js: uploadFile, step by step.  up is the frame  *)
(* of one call: attempt is the loop counter, processed is what              *)
(* _compressImage returned, error is the attempt whose error was thrown,    *)
(* trace lists the attempts, their results and the waits in order.          *)

IdleUp ==
  [pc |-> "idle", attempt |-> 0, length |-> 0, fileName |-> NoUrl,
   processed |-> "none", result |-> NoUrl, error |-> 0, trace |-> <<>>]

Tr(e, n) == [e |-> e, n |-> n]

\* _compressImage(imageBuffer): the buffer itself below 100 KB, else the
\* re-encoded image, else (sharp threw) the buffer itself
compressImage(length, sharpOk) ==
  IF length < CompressFrom THEN "original"
  ELSE IF sharpOk THEN "jpeg" ELSE "original"

\* the catch of an attempt with the off-by-one test attempt > retries
afterFailureOffByOne(attempt) == IF attempt > retries THEN "thrown" ELSE "wait"

\* the catch of an attempt: throw at the last attempt, else wait
afterFailure(attempt) == IF attempt = retries THEN "thrown" ELSE "wait"

\* uploadFile(fileBuffer, fileName, mimeType) is called
UploadCall ==
  /\ scope = "upload"
  /\ up.pc \in {"idle", "returned", "thrown"}
  /\ nextUrl <= MaxUrls
  /\ \E length \in BufferLengths :
       up' = [IdleUp EXCEPT !.pc = "compress", !.attempt = 1,
                !.length = length, !.fileName = nextUrl]
  /\ nextUrl' = nextUrl + 1
  /\ UNCHANGED <<scope, store, projects, members, services, req, pending, courses, call, admins, leads, lreq, keyop>>

\* an attempt begins: await this._compressImage(fileBuffer)
UploadCompress ==
  /\ up.pc = "compress"
  /\ \E sharpOk \in BOOLEAN :
       up' = [up EXCEPT !.pc = "upload",
                !.processed = compressImage(up.length, sharpOk),
                !.trace = Append(@, Tr("attempt", up.attempt))]
  /\ UNCHANGED <<scope, store, nextUrl, projects, members, services, req, pending, courses, call, admins, leads, lreq, keyop>>

\* await storage.upload(fileName, processedBuffer, {upsert: true}); on
\* success return the public URL, on an error result or an exception catch
UploadStore ==
  /\ up.pc = "upload"
  /\ \E out \in {"ok", "error", "throw"} :
       IF out = "ok"
       THEN /\ store' = store \cup {up.fileName}
            /\ up' = [up EXCEPT !.pc = "returned", !.result = up.fileName,
                        !.trace = Append(@, Tr("ok", up.attempt))]
       ELSE /\ up' = [up EXCEPT !.pc = afterFailure(up.attempt),
                        !.error = IF afterFailure(up.attempt) = "thrown"
                                  THEN up.attempt ELSE @,
                        !.trace = Append(@, Tr("fail", up.attempt))]
            /\ UNCHANGED store
  /\ UNCHANGED <<scope, nextUrl, projects, members, services, req, pending, courses, call, admins, leads, lreq, keyop>>

\* wait before retry: 2^attempt seconds, then the next iteration
UploadWait ==
  /\ up.pc = "wait"
  /\ up' = [up EXCEPT !.pc = "compress", !.attempt = @ + 1,
              !.trace = Append(@, Tr("wait", (2 ^ up.attempt) * 1000))]
  /\ UNCHANGED <<scope, store, nextUrl, projects, members, services, req, pending, courses, call, admins, leads, lreq, keyop>>

----------------------------------------------------------------------------
(* routes/projects.js *)

\* rollbackUploads that forgets the first upload of the request
rollbackUploadsButFirst(st, log, uploadedUrls, ok, site) ==
  IF Len(uploadedUrls) > 1
  THEN [store |-> deleteFiles(st, Tail(uploadedUrls), ok),
        log |-> Append(log, Del(Tail(uploadedUrls), site, Answer(ok)))]
  ELSE [store |-> st, log |-> log]

\* rollbackUploads(uploadedUrls): an awaited deleteFiles when anything was
\* uploaded; gives the store and the handler's log after it
rollbackUploads(st, log, uploadedUrls, ok, site) ==
  IF Len(uploadedUrls) > 0
  THEN [store |-> deleteFiles(st, uploadedUrls, ok),
        log |-> Append(log, Del(uploadedUrls, site, Answer(ok)))]
  ELSE [store |-> st, log |-> log]

\* POST /api/projects arrives
PCreateStart(p) ==
  /\ scope = "projects"
  /\ Free(p)
  /\ \E id \in ProjectIds, main \in BOOLEAN, n \in 0..MaxGalleryFiles,
        bad \in BOOLEAN :
       /\ projects[id] = NoProject
       /\ req' = [req EXCEPT ![p] =
                    [IdleReq EXCEPT !.kind = "pcreate", !.pc = "parse",
                       !.id = id, !.mainImageFile = main,
                       !.galleryFiles = n, !.badBody = bad]]
  /\ UNCHANGED <<scope, store, nextUrl, projects, members, services, pending, up, courses, call, admins, leads, lreq, keyop>>

\* A. that goes on to the uploads whatever the body holds
PCreateParseIgnoresBody(p) ==
  /\ At(p, "pcreate", "parse")
  /\ req' = [req EXCEPT ![p].pc = "main"]
  /\ UNCHANGED <<scope, store, nextUrl, projects, members, services, pending, up, courses, call, admins, leads, lreq, keyop>>

\* A. parse the text fields: JSON.parse of translations throws on a malformed
\* body, and updates[field] throws (updates is not declared in this handler)
\* for every listed field that is present
PCreateParse(p) ==
  /\ At(p, "pcreate", "parse")
  /\ req' = [req EXCEPT ![p].pc = IF req[p].badBody THEN "catch" ELSE "main"]
  /\ UNCHANGED <<scope, store, nextUrl, projects, members, services, pending, up, courses, call, admins, leads, lreq, keyop>>

\* B. upload the main image (no inner try: a failure goes to the outer catch)
PCreateMain(p) ==
  /\ At(p, "pcreate", "main")
  /\ IF req[p].mainImageFile
     THEN \E ok \in BOOLEAN :
            IF ok
            THEN /\ nextUrl <= MaxUrls
                 /\ store' = store \cup {nextUrl}
                 /\ nextUrl' = nextUrl + 1
                 /\ req' = [req EXCEPT ![p] =
                      [@ EXCEPT !.pc = "gallery", !.mainImage = nextUrl,
                         !.uploadedUrls = Append(@, nextUrl),
                         !.log = Append(@, Ev("upload", <<nextUrl>>, "main"))]]
            ELSE /\ req' = [req EXCEPT ![p] =
                      [@ EXCEPT !.pc = "catch",
                         !.log = Append(@, Ev("uploadFail", <<>>, "main"))]]
                 /\ UNCHANGED <<store, nextUrl>>
     ELSE /\ req' = [req EXCEPT ![p].pc = "gallery"]
          /\ UNCHANGED <<store, nextUrl>>
  /\ UNCHANGED <<scope, projects, members, services, pending, up, courses, call, admins, leads, lreq, keyop>>

\* C. upload the next gallery file; a failure enters the inner catch
PCreateGallery(p) ==
  /\ At(p, "pcreate", "gallery")
  /\ IF req[p].galleryFiles > 0
     THEN \E ok \in BOOLEAN :
            IF ok
            THEN /\ nextUrl <= MaxUrls
                 /\ store' = store \cup {nextUrl}
                 /\ nextUrl' = nextUrl + 1
                 /\ req' = [req EXCEPT ![p] =
                      [@ EXCEPT !.galleryFiles = @ - 1,
                         !.finalImages = Append(@, nextUrl),
                         !.uploadedUrls = Append(@, nextUrl),
                         !.log = Append(@, Ev("upload", <<nextUrl>>, "gal"))]]
            ELSE /\ req' = [req EXCEPT ![p] =
                      [@ EXCEPT !.pc = "inner",
                         !.log = Append(@, Ev("uploadFail", <<>>, "gal"))]]
                 /\ UNCHANGED <<store, nextUrl>>
     ELSE /\ req' = [req EXCEPT ![p].pc = "db"]
          /\ UNCHANGED <<store, nextUrl>>
  /\ UNCHANGED <<scope, projects, members, services, pending, up, courses, call, admins, leads, lreq, keyop>>

\* the inner catch of an upload: await rollbackUploads, then rethrow
PInnerCatch(p) ==
  /\ req[p].kind \in {"pcreate", "pupdate"} /\ req[p].pc = "inner"
  /\ \E ok \in BOOLEAN :
       LET w == rollbackUploads(store, req[p].log, req[p].uploadedUrls, ok, "inner")
       IN /\ store' = w.store
          /\ req' = [req EXCEPT ![p] = [@ EXCEPT !.pc = "catch", !.log = w.log]]
  /\ UNCHANGED <<scope, nextUrl, projects, members, services, pending, up, courses, call, admins, leads, lreq, keyop>>

\* D. newProject.save()
PCreateSave(p) ==
  /\ At(p, "pcreate", "db")
  /\ \E ok \in BOOLEAN :
       IF ok
       THEN /\ projects' = [projects EXCEPT ![req[p].id] =
                 NewProject(req[p].mainImage, req[p].finalImages)]
            /\ req' = [req EXCEPT ![p] =
                 Done([@ EXCEPT !.log = Append(@, Ev("dbOk", <<>>, "save"))],
                      201)]
       ELSE /\ req' = [req EXCEPT ![p] =
                 [@ EXCEPT !.pc = "catch",
                    !.log = Append(@, Ev("dbFail", <<>>, "save"))]]
            /\ UNCHANGED projects
  /\ UNCHANGED <<scope, store, nextUrl, members, services, pending, up, courses, call, admins, leads, lreq, keyop>>

\* the outer catch that also deletes the images marked for removal
POuterCatchDeletesMarked(p) ==
  /\ req[p].kind \in {"pcreate", "pupdate"} /\ req[p].pc = "catch"
  /\ \E ok \in BOOLEAN :
       LET w == rollbackUploads(store, req[p].log,
                                req[p].uploadedUrls \o req[p].imagesToDeleteLater,
                                ok, "outer")
       IN /\ store' = w.store
          /\ req' = [req EXCEPT ![p] = Done([@ EXCEPT !.log = w.log], 500)]
  /\ UNCHANGED <<scope, nextUrl, projects, members, services, pending, up, courses, call, admins, leads, lreq, keyop>>

\* the outer catch of create and update: await rollbackUploads, answer 500
POuterCatch(p) ==
  /\ req[p].kind \in {"pcreate", "pupdate"} /\ req[p].pc = "catch"
  /\ \E ok \in BOOLEAN :
       LET w == rollbackUploads(store, req[p].log, req[p].uploadedUrls, ok, "outer")
       IN /\ store' = w.store
          /\ req' = [req EXCEPT ![p] = Done([@ EXCEPT !.log = w.log], 500)]
  /\ UNCHANGED <<scope, nextUrl, projects, members, services, pending, up, courses, call, admins, leads, lreq, keyop>>

\* PUT /api/projects/:id arrives
PUpdateStart(p) ==
  /\ scope = "projects"
  /\ Free(p)
  /\ \E id \in ProjectIds, main \in BOOLEAN, n \in 0..MaxGalleryFiles,
        bad \in BOOLEAN :
       req' = [req EXCEPT ![p] =
                 [IdleReq EXCEPT !.kind = "pupdate", !.pc = "find",
                    !.id = id, !.mainImageFile = main,
                    !.galleryFiles = n, !.badBody = bad]]
  /\ UNCHANGED <<scope, store, nextUrl, projects, members, services, pending, up, courses, call, admins, leads, lreq, keyop>>

\* Project.findById, 404 when absent, then A. parse the text fields.  The
\* client builds existingImages from the gallery it was shown: any
\* arrangement of URLs of the gallery this request reads.
PUpdateFind(p) ==
  /\ At(p, "pupdate", "find")
  /\ LET project == projects[req[p].id]
     IN IF project = NoProject
        THEN req' = [req EXCEPT ![p] = Done(@, 404)]
        ELSE \E ex \in Arrangements(SeqToSet(project.images)) :
               req' = [req EXCEPT ![p] =
                 [@ EXCEPT !.project = project, !.existingImages = ex,
                    !.pc = IF req[p].badBody THEN "catch" ELSE "main"]]
  /\ UNCHANGED <<scope, store, nextUrl, projects, members, services, pending, up, courses, call, admins, leads, lreq, keyop>>

\* C.2 with the test inverted: marks the images the client keeps
GalleryMergeInverted(r) ==
  [r EXCEPT !.finalImages = r.existingImages,
            !.imagesToDeleteLater =
               SelectSeq(r.project.images,
                         LAMBDA url : url \in SeqToSet(r.existingImages))]

\* C.1 and C.2: keep the existing images the client sent, mark the others
GalleryMerge(r) ==
  [r EXCEPT !.finalImages = r.existingImages,
            !.imagesToDeleteLater =
               SelectSeq(r.project.images,
                         LAMBDA url : url \notin SeqToSet(r.existingImages))]

\* B. that deletes the old main image as soon as the new one is uploaded
PUpdateMainDeletesOld(p) ==
  /\ At(p, "pupdate", "main")
  /\ IF req[p].mainImageFile
     THEN \E ok \in BOOLEAN :
            IF ok
            THEN /\ nextUrl <= MaxUrls
                 /\ store' = deleteFiles(store \cup {nextUrl},
                                         <<req[p].project.mainImage>>, TRUE)
                 /\ nextUrl' = nextUrl + 1
                 /\ req' = [req EXCEPT ![p] =
                      GalleryMerge(
                        [@ EXCEPT !.pc = "gallery", !.mainImage = nextUrl,
                           !.oldMainImage = req[p].project.mainImage,
                           !.uploadedUrls = Append(@, nextUrl),
                           !.log = Append(Append(@, Ev("upload", <<nextUrl>>, "main")),
                                          Del(<<req[p].project.mainImage>>,
                                              "main", "ok"))])]
            ELSE /\ req' = [req EXCEPT ![p] =
                      [@ EXCEPT !.pc = "inner",
                         !.log = Append(@, Ev("uploadFail", <<>>, "main"))]]
                 /\ UNCHANGED <<store, nextUrl>>
     ELSE /\ req' = [req EXCEPT ![p] = GalleryMerge([@ EXCEPT !.pc = "gallery"])]
          /\ UNCHANGED <<store, nextUrl>>
  /\ UNCHANGED <<scope, projects, members, services, pending, up, courses, call, admins, leads, lreq, keyop>>

\* B. upload the new main image and remember the old one; then C.1, C.2
PUpdateMain(p) ==
  /\ At(p, "pupdate", "main")
  /\ IF req[p].mainImageFile
     THEN \E ok \in BOOLEAN :
            IF ok
            THEN /\ nextUrl <= MaxUrls
                 /\ store' = store \cup {nextUrl}
                 /\ nextUrl' = nextUrl + 1
                 /\ req' = [req EXCEPT ![p] =
                      GalleryMerge(
                        [@ EXCEPT !.pc = "gallery", !.mainImage = nextUrl,
                           !.oldMainImage = req[p].project.mainImage,
                           !.uploadedUrls = Append(@, nextUrl),
                           !.log = Append(@, Ev("upload", <<nextUrl>>, "main"))])]
            ELSE /\ req' = [req EXCEPT ![p] =
                      [@ EXCEPT !.pc = "inner",
                         !.log = Append(@, Ev("uploadFail", <<>>, "main"))]]
                 /\ UNCHANGED <<store, nextUrl>>
     ELSE /\ req' = [req EXCEPT ![p] = GalleryMerge([@ EXCEPT !.pc = "gallery"])]
          /\ UNCHANGED <<store, nextUrl>>
  /\ UNCHANGED <<scope, projects, members, services, pending, up, courses, call, admins, leads, lreq, keyop>>

\* C.3 upload the next new gallery file; a failure enters the inner catch
PUpdateGallery(p) ==
  /\ At(p, "pupdate", "gallery")
  /\ IF req[p].galleryFiles > 0
     THEN \E ok \in BOOLEAN :
            IF ok
            THEN /\ nextUrl <= MaxUrls
                 /\ store' = store \cup {nextUrl}
                 /\ nextUrl' = nextUrl + 1
                 /\ req' = [req EXCEPT ![p] =
                      [@ EXCEPT !.galleryFiles = @ - 1,
                         !.finalImages = Append(@, nextUrl),
                         !.uploadedUrls = Append(@, nextUrl),
                         !.log = Append(@, Ev("upload", <<nextUrl>>, "gal"))]]
            ELSE /\ req' = [req EXCEPT ![p] =
                      [@ EXCEPT !.pc = "inner",
                         !.log = Append(@, Ev("uploadFail", <<>>, "gal"))]]
                 /\ UNCHANGED <<store, nextUrl>>
     ELSE /\ req' = [req EXCEPT ![p].pc = "db"]
          /\ UNCHANGED <<store, nextUrl>>
  /\ UNCHANGED <<scope, projects, members, services, pending, up, courses, call, admins, leads, lreq, keyop>>

\* findByIdAndUpdate(id, updates): merges the given fields into the stored
\* document; a document that no longer exists stays absent
ApplyUpdates(doc, mainImage, images) ==
  IF doc = NoProject THEN doc
  ELSE [doc EXCEPT !.mainImage = IF Truthy(mainImage) THEN mainImage ELSE @,
                   !.images = images]

\* E. without the old main image
CleanupListGalleryOnly(r) == r.imagesToDeleteLater

\* E. the URLs handed to the un-awaited deleteFiles after the update
CleanupList(r) ==
  r.imagesToDeleteLater \o
    (IF Truthy(r.oldMainImage) THEN <<r.oldMainImage>> ELSE <<>>)

\* an un-awaited deleteFiles(urls) made by handler p: the batch remove is sent
\* now when some URL carries the bucket path, and the store answers later
Launch(pend, p, urls) ==
  IF Len(SelectSeq(urls, InBucket)) > 0
  THEN pend \cup {[by |-> p, urls |-> urls]} ELSE pend

\* the cleanup as an awaited call that the store has answered
cleanupCallAwaited(log, urls) ==
  IF Len(urls) > 0 THEN Append(log, Del(urls, "cleanup", "ok")) ELSE log

\* what the handler's log says of the un-awaited deleteFiles(urls): the call
\* is made (for a non-empty list) and its outcome is not known to the handler
cleanupCall(log, urls) ==
  IF Len(urls) > 0 THEN Append(log, Del(urls, "cleanup", "later")) ELSE log

\* D. findByIdAndUpdate, E. launch the cleanup of the old images, answer 200
\* (reading _id of a null result throws into the outer catch)
PUpdateDb(p) ==
  /\ At(p, "pupdate", "db")
  /\ \E ok \in BOOLEAN :
       IF ok
       THEN LET r == req[p]
                updatedProject == ApplyUpdates(projects[r.id], r.mainImage,
                                               r.finalImages)
                logged == cleanupCall(Append(r.log, Ev("dbOk", <<>>, "update")),
                                      CleanupList(r))
            IN /\ projects' = [projects EXCEPT ![r.id] = updatedProject]
               /\ pending' = Launch(pending, p, CleanupList(r))
               /\ req' = [req EXCEPT ![p] =
                    IF updatedProject = NoProject
                    THEN [r EXCEPT !.pc = "catch", !.log = logged]
                    ELSE Done([r EXCEPT !.log = logged], 200)]
       ELSE /\ req' = [req EXCEPT ![p] =
                 [@ EXCEPT !.pc = "catch",
                    !.log = Append(@, Ev("dbFail", <<>>, "update"))]]
            /\ UNCHANGED <<projects, pending>>
  /\ UNCHANGED <<scope, store, nextUrl, members, services, up, courses, call, admins, leads, lreq, keyop>>

\* DELETE /api/projects/:id arrives, with or without ?permanent=true
PDeleteStart(p) ==
  /\ scope = "projects"
  /\ Free(p)
  /\ \E id \in ProjectIds, permanent \in BOOLEAN :
       req' = [req EXCEPT ![p] =
                 [IdleReq EXCEPT !.kind = "pdelete", !.id = id,
                    !.permanent = permanent,
                    !.pc = IF permanent THEN "find" ELSE "soft"]]
  /\ UNCHANGED <<scope, store, nextUrl, projects, members, services, pending, up, courses, call, admins, leads, lreq, keyop>>

\* hard delete 1. findById (404 when absent), 2. collect all images
PDeleteFind(p) ==
  /\ At(p, "pdelete", "find")
  /\ LET project == projects[req[p].id]
     IN req' = [req EXCEPT ![p] =
          IF project = NoProject THEN Done(@, 404)
          ELSE [@ EXCEPT !.pc = "db", !.project = project,
                  !.imagesToDeleteLater =
                     (IF Truthy(project.mainImage)
                      THEN <<project.mainImage>> ELSE <<>>) \o project.images]]
  /\ UNCHANGED <<scope, store, nextUrl, projects, members, services, pending, up, courses, call, admins, leads, lreq, keyop>>

\* hard delete that launches deleteFiles before project.deleteOne()
PDeleteOneFilesFirst(p) ==
  /\ At(p, "pdelete", "db")
  /\ \E ok \in BOOLEAN :
       LET r == req[p]
           logged == cleanupCall(r.log, r.imagesToDeleteLater)
       IN /\ pending' = Launch(pending, p, r.imagesToDeleteLater)
          /\ projects' = IF ok THEN [projects EXCEPT ![r.id] = NoProject]
                         ELSE projects
          /\ req' = [req EXCEPT ![p] =
               IF ok
               THEN Done([r EXCEPT !.log =
                            Append(logged, Ev("dbOk", <<>>, "deleteOne"))], 200)
               ELSE Done([r EXCEPT !.log =
                            Append(logged, Ev("dbFail", <<>>, "deleteOne"))], 500)]
  /\ UNCHANGED <<scope, store, nextUrl, members, services, up, courses, call, admins, leads, lreq, keyop>>

\* hard delete 3. project.deleteOne(), 4. launch deleteFiles, answer 200
PDeleteOne(p) ==
  /\ At(p, "pdelete", "db")
  /\ \E ok \in BOOLEAN :
       IF ok
       THEN LET r == req[p]
            IN /\ projects' = [projects EXCEPT ![r.id] = NoProject]
               /\ pending' = Launch(pending, p, r.imagesToDeleteLater)
               /\ req' = [req EXCEPT ![p] =
                    Done([r EXCEPT !.log =
                            cleanupCall(Append(r.log, Ev("dbOk", <<>>, "deleteOne")),
                                        r.imagesToDeleteLater)], 200)]
       ELSE /\ req' = [req EXCEPT ![p] =
                 Done([@ EXCEPT !.log = Append(@, Ev("dbFail", <<>>, "deleteOne"))],
                      500)]
            /\ UNCHANGED <<projects, pending>>
  /\ UNCHANGED <<scope, store, nextUrl, members, services, up, courses, call, admins, leads, lreq, keyop>>

\* soft delete that also empties the gallery
PDeleteSoftDropsGallery(p) ==
  /\ At(p, "pdelete", "soft")
  /\ \E ok \in BOOLEAN :
       IF ok
       THEN /\ projects' = [projects EXCEPT ![req[p].id] =
                 IF @ = NoProject THEN @
                 ELSE [@ EXCEPT !.status = "deleted", !.images = <<>>]]
            /\ req' = [req EXCEPT ![p] =
                 Done([@ EXCEPT !.log = Append(@, Ev("dbOk", <<>>, "soft"))], 200)]
       ELSE /\ req' = [req EXCEPT ![p] =
                 Done([@ EXCEPT !.log = Append(@, Ev("dbFail", <<>>, "soft"))], 500)]
            /\ UNCHANGED projects
  /\ UNCHANGED <<scope, store, nextUrl, members, services, pending, up, courses, call, admins, leads, lreq, keyop>>

\* soft delete: findByIdAndUpdate(id, {status: 'deleted'})
PDeleteSoft(p) ==
  /\ At(p, "pdelete", "soft")
  /\ \E ok \in BOOLEAN :
       IF ok
       THEN /\ projects' = [projects EXCEPT ![req[p].id] =
                 IF @ = NoProject THEN @ ELSE [@ EXCEPT !.status = "deleted"]]
            /\ req' = [req EXCEPT ![p] =
                 Done([@ EXCEPT !.log = Append(@, Ev("dbOk", <<>>, "soft"))], 200)]
       ELSE /\ req' = [req EXCEPT ![p] =
                 Done([@ EXCEPT !.log = Append(@, Ev("dbFail", <<>>, "soft"))], 500)]
            /\ UNCHANGED projects
  /\ UNCHANGED <<scope, store, nextUrl, members, services, pending, up, courses, call, admins, leads, lreq, keyop>>

\* the store answers an un-awaited deleteFiles call
AsyncCleanup ==
  /\ \E sent \in pending, ok \in BOOLEAN :
       /\ store' = deleteFiles(store, sent.urls, ok)
       /\ pending' = pending \ {sent}
  /\ UNCHANGED <<scope, nextUrl, projects, members, services, req, up, courses, call, admins, leads, lreq, keyop>>

----------------------------------------------------------------------------
(* routes/team.js *)

\* rollbackUpload that deletes nothing
rollbackUploadNothing(st, log, imageUrl, ok) == [store |-> st, log |-> log]

\* rollbackUpload(imageUrl): an awaited deleteFile when an image was uploaded;
\* gives the store and the handler's log after it
rollbackUpload(st, log, imageUrl, ok) ==
  IF Truthy(imageUrl)
  THEN [store |-> deleteFile(st, imageUrl, ok),
        log |-> Append(log, Del(<<imageUrl>>, "outer", Answer(ok)))]
  ELSE [store |-> st, log |-> log]

\* POST /api/team arrives
TCreateStart(p) ==
  /\ scope = "team"
  /\ Free(p)
  /\ \E id \in MemberIds, file \in BOOLEAN, bad \in BOOLEAN,
        body \in {NoUrl, Placeholder} :
       /\ members[id] = NoMember
       /\ req' = [req EXCEPT ![p] =
                    [IdleReq EXCEPT !.kind = "tcreate", !.pc = "parse",
                       !.id = id, !.file = file, !.badBody = bad,
                       !.bodyUrl = body]]
  /\ UNCHANGED <<scope, store, nextUrl, projects, members, services, pending, up, courses, call, admins, leads, lreq, keyop>>

\* parse the JSON fields and validate names, email and license number:
\* answered 400 before anything is uploaded
TCreateValidate(p) ==
  /\ At(p, "tcreate", "parse")
  /\ req' = [req EXCEPT ![p] =
       IF req[p].badBody THEN Done(@, 400) ELSE [@ EXCEPT !.pc = "upload"]]
  /\ UNCHANGED <<scope, store, nextUrl, projects, members, services, pending, up, courses, call, admins, leads, lreq, keyop>>

\* handle image upload: imageUrl is the upload, else the body's URL, else the
\* placeholder
TCreateUpload(p) ==
  /\ At(p, "tcreate", "upload")
  /\ LET imageUrl == IF Truthy(req[p].bodyUrl) THEN req[p].bodyUrl
                     ELSE Placeholder
     IN IF req[p].file
        THEN \E ok \in BOOLEAN :
               IF ok
               THEN /\ nextUrl <= MaxUrls
                    /\ store' = store \cup {nextUrl}
                    /\ nextUrl' = nextUrl + 1
                    /\ req' = [req EXCEPT ![p] =
                         [@ EXCEPT !.pc = "db", !.uploadedUrl = nextUrl,
                            !.url = nextUrl,
                            !.log = Append(@, Ev("upload", <<nextUrl>>, "image"))]]
               ELSE /\ req' = [req EXCEPT ![p] =
                         [@ EXCEPT !.pc = "catch",
                            !.log = Append(@, Ev("uploadFail", <<>>, "image"))]]
                    /\ UNCHANGED <<store, nextUrl>>
        ELSE /\ req' = [req EXCEPT ![p] = [@ EXCEPT !.pc = "db", !.url = imageUrl]]
             /\ UNCHANGED <<store, nextUrl>>
  /\ UNCHANGED <<scope, projects, members, services, pending, up, courses, call, admins, leads, lreq, keyop>>

\* TeamMember.create(memberData)
TCreateDb(p) ==
  /\ At(p, "tcreate", "db")
  /\ \E ok \in BOOLEAN :
       IF ok
       THEN /\ members' = [members EXCEPT ![req[p].id] =
                 [image |-> req[p].url, present |-> TRUE]]
            /\ req' = [req EXCEPT ![p] =
                 Done([@ EXCEPT !.log = Append(@, Ev("dbOk", <<>>, "create"))],
                      201)]
       ELSE /\ req' = [req EXCEPT ![p] =
                 [@ EXCEPT !.pc = "catch",
                    !.log = Append(@, Ev("dbFail", <<>>, "create"))]]
            /\ UNCHANGED members
  /\ UNCHANGED <<scope, store, nextUrl, projects, services, pending, up, courses, call, admins, leads, lreq, keyop>>

\* the catch that answers 500 when the rollback did not succeed
TCatchAnswersRollback(p) ==
  /\ req[p].kind \in {"tcreate", "tupdate"} /\ req[p].pc = "catch"
  /\ \E ok \in BOOLEAN :
       LET w == rollbackUpload(store, req[p].log, req[p].uploadedUrl, ok)
       IN /\ store' = w.store
          /\ req' = [req EXCEPT ![p] =
               Done([@ EXCEPT !.log = w.log], IF ok THEN 400 ELSE 500)]
  /\ UNCHANGED <<scope, nextUrl, projects, members, services, pending, up, courses, call, admins, leads, lreq, keyop>>

\* the catch of create and update: rollbackUpload of the uploaded image, 400
TCatch(p) ==
  /\ req[p].kind \in {"tcreate", "tupdate"} /\ req[p].pc = "catch"
  /\ \E ok \in BOOLEAN :
       LET w == rollbackUpload(store, req[p].log, req[p].uploadedUrl, ok)
       IN /\ store' = w.store
          /\ req' = [req EXCEPT ![p] = Done([@ EXCEPT !.log = w.log], 400)]
  /\ UNCHANGED <<scope, nextUrl, projects, members, services, pending, up, courses, call, admins, leads, lreq, keyop>>

\* PUT /api/team/:id arrives
TUpdateStart(p) ==
  /\ scope = "team"
  /\ Free(p)
  /\ \E id \in MemberIds, file \in BOOLEAN, bad \in BOOLEAN,
        body \in {NoUrl, Placeholder} :
       req' = [req EXCEPT ![p] =
                 [IdleReq EXCEPT !.kind = "tupdate", !.pc = "find",
                    !.id = id, !.file = file, !.badBody = bad,
                    !.bodyUrl = body]]
  /\ UNCHANGED <<scope, store, nextUrl, projects, members, services, pending, up, courses, call, admins, leads, lreq, keyop>>

\* TeamMember.findById (404 when absent), remember the old image, parse the
\* JSON fields and check the license number (400)
TUpdateFind(p) ==
  /\ At(p, "tupdate", "find")
  /\ LET member == members[req[p].id]
     IN req' = [req EXCEPT ![p] =
          IF member = NoMember THEN Done(@, 404)
          ELSE IF req[p].badBody THEN Done([@ EXCEPT !.oldUrl = member.image], 400)
          ELSE [@ EXCEPT !.pc = "upload", !.oldUrl = member.image]]
  /\ UNCHANGED <<scope, store, nextUrl, projects, members, services, pending, up, courses, call, admins, leads, lreq, keyop>>

\* handle new image upload, then set image: new upload > provided URL > keep
\* existing
TUpdateUpload(p) ==
  /\ At(p, "tupdate", "upload")
  /\ IF req[p].file
     THEN \E ok \in BOOLEAN :
            IF ok
            THEN /\ nextUrl <= MaxUrls
                 /\ store' = store \cup {nextUrl}
                 /\ nextUrl' = nextUrl + 1
                 /\ req' = [req EXCEPT ![p] =
                      [@ EXCEPT !.pc = "db", !.uploadedUrl = nextUrl,
                         !.url = nextUrl,
                         !.log = Append(@, Ev("upload", <<nextUrl>>, "image"))]]
            ELSE /\ req' = [req EXCEPT ![p] =
                      [@ EXCEPT !.pc = "catch",
                         !.log = Append(@, Ev("uploadFail", <<>>, "image"))]]
                 /\ UNCHANGED <<store, nextUrl>>
     ELSE /\ req' = [req EXCEPT ![p] =
               [@ EXCEPT !.pc = "db",
                  !.url = IF Truthy(req[p].bodyUrl) THEN req[p].bodyUrl
                          ELSE req[p].oldUrl]]
          /\ UNCHANGED <<store, nextUrl>>
  /\ UNCHANGED <<scope, projects, members, services, pending, up, courses, call, admins, leads, lreq, keyop>>

\* TeamMember.findByIdAndUpdate(id, updateData)
TUpdateDb(p) ==
  /\ At(p, "tupdate", "db")
  /\ \E ok \in BOOLEAN :
       IF ok
       THEN /\ members' = [members EXCEPT ![req[p].id] =
                 IF @ = NoMember THEN @ ELSE [@ EXCEPT !.image = req[p].url]]
            /\ req' = [req EXCEPT ![p] =
                 [@ EXCEPT !.pc = "cleanup",
                    !.updated = (members[req[p].id] # NoMember),
                    !.log = Append(@, Ev("dbOk", <<>>, "update"))]]
       ELSE /\ req' = [req EXCEPT ![p] =
                 [@ EXCEPT !.pc = "catch",
                    !.log = Append(@, Ev("dbFail", <<>>, "update"))]]
            /\ UNCHANGED members
  /\ UNCHANGED <<scope, store, nextUrl, projects, services, pending, up, courses, call, admins, leads, lreq, keyop>>

\* delete the old image if a new one was uploaded (awaited deleteFile), then
\* answer 200 (reading _id of a null result throws into the catch)
TUpdateCleanup(p) ==
  /\ At(p, "tupdate", "cleanup")
  /\ LET r == req[p]
         del == Truthy(r.uploadedUrl) /\ Truthy(r.oldUrl) /\ InBucket(r.oldUrl)
     IN \E ok \in BOOLEAN :
          LET logged == IF del
                        THEN Append(r.log, Del(<<r.oldUrl>>, "cleanup", Answer(ok)))
                        ELSE r.log
          IN /\ store' = IF del THEN deleteFile(store, r.oldUrl, ok) ELSE store
             /\ req' = [req EXCEPT ![p] =
                  IF r.updated THEN Done([r EXCEPT !.log = logged], 200)
                  ELSE [r EXCEPT !.pc = "catch", !.log = logged]]
  /\ UNCHANGED <<scope, nextUrl, projects, members, services, pending, up, courses, call, admins, leads, lreq, keyop>>

----------------------------------------------------------------------------
(* routes/services.js *)

\* deleteImageFromSupabase(supabase, imageUrl): skipped for a URL that is
\* empty, not a Supabase URL or without '/media/'; else one remove call
deleteImageFromSupabase(st, imageUrl, ok) ==
  IF ~Truthy(imageUrl) \/ ~InBucket(imageUrl) THEN st
  ELSE remove(st, <<imageUrl>>, ok)

\* POST /api/services arrives
SCreateStart(p) ==
  /\ scope = "services"
  /\ Free(p)
  /\ \E id \in ServiceIds, file \in BOOLEAN, bad \in BOOLEAN,
        missing \in BOOLEAN, body \in {NoUrl, Placeholder} :
       /\ services[id] = NoService
       /\ req' = [req EXCEPT ![p] =
                    [IdleReq EXCEPT !.kind = "screate", !.pc = "upload",
                       !.id = id, !.file = file, !.badBody = bad,
                       !.missing = missing, !.bodyUrl = body]]
  /\ UNCHANGED <<scope, store, nextUrl, projects, members, services, pending, up, courses, call, admins, leads, lreq, keyop>>

\* parse translations (JSON.parse may throw), then handle icon upload
SCreateUpload(p) ==
  /\ At(p, "screate", "upload")
  /\ IF req[p].badBody
     THEN /\ req' = [req EXCEPT ![p] = [@ EXCEPT !.pc = "catch", !.error = "Error"]]
          /\ UNCHANGED <<store, nextUrl>>
     ELSE IF req[p].file
     THEN \E ok \in BOOLEAN :
            IF ok
            THEN /\ nextUrl <= MaxUrls
                 /\ store' = store \cup {nextUrl}
                 /\ nextUrl' = nextUrl + 1
                 /\ req' = [req EXCEPT ![p] =
                      [@ EXCEPT !.pc = "db", !.uploadedUrl = nextUrl,
                         !.url = nextUrl,
                         !.log = Append(@, Ev("upload", <<nextUrl>>, "icon"))]]
            ELSE /\ req' = [req EXCEPT ![p] =
                      [@ EXCEPT !.pc = "catch", !.error = "Error",
                         !.log = Append(@, Ev("uploadFail", <<>>, "icon"))]]
                 /\ UNCHANGED <<store, nextUrl>>
     ELSE /\ req' = [req EXCEPT ![p] =
               [@ EXCEPT !.pc = "db",
                  !.url = IF Truthy(req[p].bodyUrl) THEN req[p].bodyUrl
                          ELSE Placeholder]]
          /\ UNCHANGED <<store, nextUrl>>
  /\ UNCHANGED <<scope, projects, members, services, pending, up, courses, call, admins, leads, lreq, keyop>>

\* validate required fields (throws when translations or order is missing),
\* then newService.save()
SCreateSave(p) ==
  /\ At(p, "screate", "db")
  /\ IF req[p].missing
     THEN /\ req' = [req EXCEPT ![p] = [@ EXCEPT !.pc = "catch", !.error = "Error"]]
          /\ UNCHANGED services
     ELSE \E out \in {"ok", "ValidationError", "Error"} :
            IF out = "ok"
            THEN /\ services' = [services EXCEPT ![req[p].id] =
                      [icon |-> req[p].url, present |-> TRUE]]
                 /\ req' = [req EXCEPT ![p] =
                      Done([@ EXCEPT !.log = Append(@, Ev("dbOk", <<>>, "save"))],
                           201)]
            ELSE /\ req' = [req EXCEPT ![p] =
                      [@ EXCEPT !.pc = "catch", !.error = out,
                         !.log = Append(@, Ev("dbFail", <<>>, "save"))]]
                 /\ UNCHANGED services
  /\ UNCHANGED <<scope, store, nextUrl, projects, members, pending, up, courses, call, admins, leads, lreq, keyop>>

\* the catch of create and update: delete the uploaded icon, answer 400 for a
\* ValidationError and 500 otherwise
SCatch(p) ==
  /\ req[p].kind \in {"screate", "supdate"} /\ req[p].pc = "catch"
  /\ LET r == req[p]
     IN \E ok \in BOOLEAN :
          /\ store' = IF Truthy(r.uploadedUrl)
                      THEN deleteImageFromSupabase(store, r.uploadedUrl, ok)
                      ELSE store
          /\ req' = [req EXCEPT ![p] =
               Done([r EXCEPT !.log =
                       IF Truthy(r.uploadedUrl)
                       THEN Append(@, Del(<<r.uploadedUrl>>, "outer", Answer(ok)))
                       ELSE @],
                    IF r.error = "ValidationError" THEN 400 ELSE 500)]
  /\ UNCHANGED <<scope, nextUrl, projects, members, services, pending, up, courses, call, admins, leads, lreq, keyop>>

\* PUT /api/services/:id arrives
SUpdateStart(p) ==
  /\ scope = "services"
  /\ Free(p)
  /\ \E id \in ServiceIds, file \in BOOLEAN, bad \in BOOLEAN,
        body \in {NoUrl, Placeholder} :
       req' = [req EXCEPT ![p] =
                 [IdleReq EXCEPT !.kind = "supdate", !.pc = "find",
                    !.id = id, !.file = file, !.badBody = bad,
                    !.bodyUrl = body]]
  /\ UNCHANGED <<scope, store, nextUrl, projects, members, services, pending, up, courses, call, admins, leads, lreq, keyop>>

\* Service.findById (404 when absent), remember the old icon, parse
\* translations (JSON.parse may throw)
SUpdateFind(p) ==
  /\ At(p, "supdate", "find")
  /\ LET service == services[req[p].id]
     IN req' = [req EXCEPT ![p] =
          IF service = NoService THEN Done(@, 404)
          ELSE [@ EXCEPT !.oldUrl = service.icon,
                  !.pc = IF req[p].badBody THEN "catch" ELSE "upload",
                  !.error = IF req[p].badBody THEN "Error" ELSE "none"]]
  /\ UNCHANGED <<scope, store, nextUrl, projects, members, services, pending, up, courses, call, admins, leads, lreq, keyop>>

\* handle icon upload: iconUrl is the upload, else the body's URL, else the
\* stored icon
SUpdateUpload(p) ==
  /\ At(p, "supdate", "upload")
  /\ IF req[p].file
     THEN \E ok \in BOOLEAN :
            IF ok
            THEN /\ nextUrl <= MaxUrls
                 /\ store' = store \cup {nextUrl}
                 /\ nextUrl' = nextUrl + 1
                 /\ req' = [req EXCEPT ![p] =
                      [@ EXCEPT !.pc = "delold", !.uploadedUrl = nextUrl,
                         !.url = nextUrl,
                         !.log = Append(@, Ev("upload", <<nextUrl>>, "icon"))]]
            ELSE /\ req' = [req EXCEPT ![p] =
                      [@ EXCEPT !.pc = "catch", !.error = "Error",
                         !.log = Append(@, Ev("uploadFail", <<>>, "icon"))]]
                 /\ UNCHANGED <<store, nextUrl>>
     ELSE /\ req' = [req EXCEPT ![p] =
               [@ EXCEPT !.pc = "delold",
                  !.url = IF Truthy(req[p].bodyUrl) THEN req[p].bodyUrl
                          ELSE req[p].oldUrl]]
          /\ UNCHANGED <<store, nextUrl>>
  /\ UNCHANGED <<scope, projects, members, services, pending, up, courses, call, admins, leads, lreq, keyop>>

\* delete old icon if actually changed (awaited, before the database update)
SUpdateDeleteOld(p) ==
  /\ At(p, "supdate", "delold")
  /\ LET r == req[p]
         changed == Truthy(r.oldUrl) /\ Truthy(r.url) /\ r.oldUrl # r.url
     IN \E ok \in BOOLEAN :
          /\ store' = IF changed
                      THEN deleteImageFromSupabase(store, r.oldUrl, ok)
                      ELSE store
          /\ req' = [req EXCEPT ![p] =
               [r EXCEPT !.pc = "db",
                  !.log = IF changed
                          THEN Append(@, Del(<<r.oldUrl>>, "replace", Answer(ok)))
                          ELSE @]]
  /\ UNCHANGED <<scope, nextUrl, projects, members, services, pending, up, courses, call, admins, leads, lreq, keyop>>

\* Service.findByIdAndUpdate(id, serviceData, {runValidators}), answer 200
\* (reading translations of a null result throws into the catch)
SUpdateDb(p) ==
  /\ At(p, "supdate", "db")
  /\ \E out \in {"ok", "ValidationError", "Error"} :
       IF out = "ok"
       THEN /\ services' = [services EXCEPT ![req[p].id] =
                 IF @ = NoService THEN @ ELSE [@ EXCEPT !.icon = req[p].url]]
            /\ req' = [req EXCEPT ![p] =
                 IF services[req[p].id] = NoService
                 THEN [@ EXCEPT !.pc = "catch", !.error = "Error",
                         !.log = Append(@, Ev("dbOk", <<>>, "update"))]
                 ELSE Done([@ EXCEPT !.log = Append(@, Ev("dbOk", <<>>, "update"))],
                           200)]
       ELSE /\ req' = [req EXCEPT ![p] =
                 [@ EXCEPT !.pc = "catch", !.error = out,
                    !.log = Append(@, Ev("dbFail", <<>>, "update"))]]
            /\ UNCHANGED services
  /\ UNCHANGED <<scope, store, nextUrl, projects, members, pending, up, courses, call, admins, leads, lreq, keyop>>

----------------------------------------------------------------------------
(* routes/projects.js: GET *)

\* the filter of the list and search queries: status: { $ne: 'deleted' }
ListQuery(project) == project # NoProject /\ project.status # "deleted"

\* GET /:id after findById: 404 for no project and for a deleted one
GetById(project) ==
  IF project = NoProject THEN 404
  ELSE IF project.status = "deleted" THEN 404 ELSE 200

\* GET /api/projects, GET /api/projects/search/:query or GET /api/projects/:id
\* arrives, with a valid language
PGetStart(p) ==
  /\ scope = "projects"
  /\ Free(p)
  /\ \E kind \in {"plist", "psearch", "pget"}, id \in ProjectIds :
       req' = [req EXCEPT ![p] =
                 [IdleReq EXCEPT !.kind = kind, !.pc = "find", !.id = id]]
  /\ UNCHANGED <<scope, store, nextUrl, projects, members, services, pending, up, courses, call, admins, leads, lreq, keyop>>

\* Project.find(query): the projects that pass the status filter and the
\* request's other filters (type, featured, the search text)
PListFind(p) ==
  /\ req[p].kind \in {"plist", "psearch"} /\ req[p].pc = "find"
  /\ \E found \in SUBSET {id \in ProjectIds : ListQuery(projects[id])} :
       req' = [req EXCEPT ![p] = Done([@ EXCEPT !.found = found], 200)]
  /\ UNCHANGED <<scope, store, nextUrl, projects, members, services, pending, up, courses, call, admins, leads, lreq, keyop>>

\* Project.findById(req.params.id), then the checks
PGetFind(p) ==
  /\ At(p, "pget", "find")
  /\ req' = [req EXCEPT ![p] = Done(@, GetById(projects[req[p].id]))]
  /\ UNCHANGED <<scope, store, nextUrl, projects, members, services, pending, up, courses, call, admins, leads, lreq, keyop>>

----------------------------------------------------------------------------
(* routes/team.js: DELETE *)

\* DELETE /api/team/:id arrives
TDeleteStart(p) ==
  /\ scope = "team"
  /\ Free(p)
  /\ \E id \in MemberIds :
       req' = [req EXCEPT ![p] =
                 [IdleReq EXCEPT !.kind = "tdelete", !.pc = "find", !.id = id]]
  /\ UNCHANGED <<scope, store, nextUrl, projects, members, services, pending, up, courses, call, admins, leads, lreq, keyop>>

\* TeamMember.findById, 404 when absent
TDeleteFind(p) ==
  /\ At(p, "tdelete", "find")
  /\ LET member == members[req[p].id]
     IN req' = [req EXCEPT ![p] =
          IF member = NoMember THEN Done(@, 404)
          ELSE [@ EXCEPT !.pc = "delfile", !.oldUrl = member.image]]
  /\ UNCHANGED <<scope, store, nextUrl, projects, members, services, pending, up, courses, call, admins, leads, lreq, keyop>>

\* delete image from Supabase if exists: an awaited deleteFile
TDeleteFile(p) ==
  /\ At(p, "tdelete", "delfile")
  /\ LET r == req[p]
         del == Truthy(r.oldUrl) /\ InBucket(r.oldUrl)
     IN \E ok \in BOOLEAN :
          /\ store' = IF del THEN deleteFile(store, r.oldUrl, ok) ELSE store
          /\ req' = [req EXCEPT ![p] =
               [r EXCEPT !.pc = "db",
                  !.log = IF del
                          THEN Append(@, Del(<<r.oldUrl>>, "delete", Answer(ok)))
                          ELSE @]]
  /\ UNCHANGED <<scope, nextUrl, projects, members, services, pending, up, courses, call, admins, leads, lreq, keyop>>

\* member.deleteOne(), answer 200; the catch answers 500
TDeleteOne(p) ==
  /\ At(p, "tdelete", "db")
  /\ \E ok \in BOOLEAN :
       IF ok
       THEN /\ members' = [members EXCEPT ![req[p].id] = NoMember]
            /\ req' = [req EXCEPT ![p] =
                 Done([@ EXCEPT !.log = Append(@, Ev("dbOk", <<>>, "deleteOne"))],
                      200)]
       ELSE /\ req' = [req EXCEPT ![p] =
                 Done([@ EXCEPT !.log = Append(@, Ev("dbFail", <<>>, "deleteOne"))],
                      500)]
            /\ UNCHANGED members
  /\ UNCHANGED <<scope, store, nextUrl, projects, services, pending, up, courses, call, admins, leads, lreq, keyop>>

----------------------------------------------------------------------------
(* routes/services.js: DELETE *)

\* DELETE /api/services/:id arrives
SDeleteStart(p) ==
  /\ scope = "services"
  /\ Free(p)
  /\ \E id \in ServiceIds :
       req' = [req EXCEPT ![p] =
                 [IdleReq EXCEPT !.kind = "sdelete", !.pc = "find", !.id = id]]
  /\ UNCHANGED <<scope, store, nextUrl, projects, members, services, pending, up, courses, call, admins, leads, lreq, keyop>>

\* Service.findById, 404 when absent
SDeleteFind(p) ==
  /\ At(p, "sdelete", "find")
  /\ LET service == services[req[p].id]
     IN req' = [req EXCEPT ![p] =
          IF service = NoService THEN Done(@, 404)
          ELSE [@ EXCEPT !.pc = "delfile", !.oldUrl = service.icon]]
  /\ UNCHANGED <<scope, store, nextUrl, projects, members, services, pending, up, courses, call, admins, leads, lreq, keyop>>

\* delete icon from Supabase: an awaited deleteImageFromSupabase
SDeleteIcon(p) ==
  /\ At(p, "sdelete", "delfile")
  /\ LET r == req[p]
     IN \E ok \in BOOLEAN :
          /\ store' = IF Truthy(r.oldUrl)
                      THEN deleteImageFromSupabase(store, r.oldUrl, ok)
                      ELSE store
          /\ req' = [req EXCEPT ![p] =
               [r EXCEPT !.pc = "db",
                  !.log = IF Truthy(r.oldUrl)
                          THEN Append(@, Del(<<r.oldUrl>>, "delete", Answer(ok)))
                          ELSE @]]
  /\ UNCHANGED <<scope, nextUrl, projects, members, services, pending, up, courses, call, admins, leads, lreq, keyop>>

\* Service.findByIdAndDelete(id), answer 200; the catch answers 500
SDeleteDb(p) ==
  /\ At(p, "sdelete", "db")
  /\ \E ok \in BOOLEAN :
       IF ok
       THEN /\ services' = [services EXCEPT ![req[p].id] = NoService]
            /\ req' = [req EXCEPT ![p] =
                 Done([@ EXCEPT !.log =
                         Append(@, Ev("dbOk", <<>>, "findByIdAndDelete"))], 200)]
       ELSE /\ req' = [req EXCEPT ![p] =
                 Done([@ EXCEPT !.log =
                         Append(@, Ev("dbFail", <<>>, "findByIdAndDelete"))], 500)]
            /\ UNCHANGED services
  /\ UNCHANGED <<scope, store, nextUrl, projects, members, pending, up, courses, call, admins, leads, lreq, keyop>>

----------------------------------------------------------------------------
(* routes/courses.js *)

\* POST /api/courses arrives
CCreateStart(p) ==
  /\ scope = "courses"
  /\ Free(p)
  /\ \E id \in CourseIds, file \in BOOLEAN, body \in {NoUrl, Placeholder} :
       /\ courses[id] = NoCourse
       /\ req' = [req EXCEPT ![p] =
                    [IdleReq EXCEPT !.kind = "ccreate", !.pc = "upload",
                       !.id = id, !.file = file, !.bodyUrl = body]]
  /\ UNCHANGED <<scope, store, nextUrl, projects, members, services, pending, up, courses, call, admins, leads, lreq, keyop>>

\* 1. handle image upload: the upload, else the body's image, else the
\* placeholder; a failed upload is rethrown to the catch, which answers 500
CCreateUpload(p) ==
  /\ At(p, "ccreate", "upload")
  /\ IF req[p].file
     THEN \E ok \in BOOLEAN :
            IF ok
            THEN /\ nextUrl <= MaxUrls
                 /\ store' = store \cup {nextUrl}
                 /\ nextUrl' = nextUrl + 1
                 /\ req' = [req EXCEPT ![p] =
                      [@ EXCEPT !.pc = "db", !.uploadedUrl = nextUrl,
                         !.url = nextUrl,
                         !.log = Append(@, Ev("upload", <<nextUrl>>, "image"))]]
            ELSE /\ req' = [req EXCEPT ![p] =
                      Done([@ EXCEPT !.log =
                              Append(@, Ev("uploadFail", <<>>, "image"))], 500)]
                 /\ UNCHANGED <<store, nextUrl>>
     ELSE /\ req' = [req EXCEPT ![p] =
               [@ EXCEPT !.pc = "db",
                  !.url = IF Truthy(req[p].bodyUrl) THEN req[p].bodyUrl
                          ELSE Placeholder]]
          /\ UNCHANGED <<store, nextUrl>>
  /\ UNCHANGED <<scope, projects, members, services, pending, up, courses, call, admins, leads, lreq, keyop>>

\* 2. Course.create(courseData), answer 201; the catch answers 500
CCreateDb(p) ==
  /\ At(p, "ccreate", "db")
  /\ \E ok \in BOOLEAN :
       IF ok
       THEN /\ courses' = [courses EXCEPT ![req[p].id] =
                 [image |-> req[p].url, present |-> TRUE]]
            /\ req' = [req EXCEPT ![p] =
                 Done([@ EXCEPT !.log = Append(@, Ev("dbOk", <<>>, "create"))],
                      201)]
       ELSE /\ req' = [req EXCEPT ![p] =
                 Done([@ EXCEPT !.log = Append(@, Ev("dbFail", <<>>, "create"))],
                      500)]
            /\ UNCHANGED courses
  /\ UNCHANGED <<scope, store, nextUrl, projects, members, services, pending, up, call, admins, leads, lreq, keyop>>

\* PUT /api/courses/:id arrives
CUpdateStart(p) ==
  /\ scope = "courses"
  /\ Free(p)
  /\ \E id \in CourseIds, file \in BOOLEAN, body \in {NoUrl, Placeholder} :
       req' = [req EXCEPT ![p] =
                 [IdleReq EXCEPT !.kind = "cupdate", !.pc = "find",
                    !.id = id, !.file = file, !.bodyUrl = body]]
  /\ UNCHANGED <<scope, store, nextUrl, projects, members, services, pending, up, courses, call, admins, leads, lreq, keyop>>

\* Course.findById, 404 when absent; updates = parseCourseData(req.body)
CUpdateFind(p) ==
  /\ At(p, "cupdate", "find")
  /\ LET course == courses[req[p].id]
     IN req' = [req EXCEPT ![p] =
          IF course = NoCourse THEN Done(@, 404)
          ELSE [@ EXCEPT !.oldUrl = course.image, !.url = req[p].bodyUrl,
                  !.pc = IF req[p].file THEN "delold" ELSE "db"]]
  /\ UNCHANGED <<scope, store, nextUrl, projects, members, services, pending, up, courses, call, admins, leads, lreq, keyop>>

\* 1. image replacement: delete old image if it is hosted on Supabase (an
\* awaited deleteFile, before the upload)
CUpdateDeleteOld(p) ==
  /\ At(p, "cupdate", "delold")
  /\ LET r == req[p]
         del == Truthy(r.oldUrl) /\ InBucket(r.oldUrl)
     IN \E ok \in BOOLEAN :
          /\ store' = IF del THEN deleteFile(store, r.oldUrl, ok) ELSE store
          /\ req' = [req EXCEPT ![p] =
               [r EXCEPT !.pc = "upload",
                  !.log = IF del
                          THEN Append(@, Del(<<r.oldUrl>>, "replace", Answer(ok)))
                          ELSE @]]
  /\ UNCHANGED <<scope, nextUrl, projects, members, services, pending, up, courses, call, admins, leads, lreq, keyop>>

\* upload new image; a failure goes to the catch, which answers 500
CUpdateUpload(p) ==
  /\ At(p, "cupdate", "upload")
  /\ \E ok \in BOOLEAN :
       IF ok
       THEN /\ nextUrl <= MaxUrls
            /\ store' = store \cup {nextUrl}
            /\ nextUrl' = nextUrl + 1
            /\ req' = [req EXCEPT ![p] =
                 [@ EXCEPT !.pc = "db", !.uploadedUrl = nextUrl, !.url = nextUrl,
                    !.log = Append(@, Ev("upload", <<nextUrl>>, "image"))]]
       ELSE /\ req' = [req EXCEPT ![p] =
                 Done([@ EXCEPT !.log =
                         Append(@, Ev("uploadFail", <<>>, "image"))], 500)]
            /\ UNCHANGED <<store, nextUrl>>
  /\ UNCHANGED <<scope, projects, members, services, pending, up, courses, call, admins, leads, lreq, keyop>>

\* 2. Course.findByIdAndUpdate(id, updates), answer 200; the catch answers 500
CUpdateDb(p) ==
  /\ At(p, "cupdate", "db")
  /\ \E ok \in BOOLEAN :
       IF ok
       THEN /\ courses' = [courses EXCEPT ![req[p].id] =
                 IF @ = NoCourse THEN @
                 ELSE [@ EXCEPT !.image = IF Truthy(req[p].url) THEN req[p].url
                                          ELSE @]]
            /\ req' = [req EXCEPT ![p] =
                 Done([@ EXCEPT !.log = Append(@, Ev("dbOk", <<>>, "update"))],
                      200)]
       ELSE /\ req' = [req EXCEPT ![p] =
                 Done([@ EXCEPT !.log = Append(@, Ev("dbFail", <<>>, "update"))],
                      500)]
            /\ UNCHANGED courses
  /\ UNCHANGED <<scope, store, nextUrl, projects, members, services, pending, up, call, admins, leads, lreq, keyop>>

\* DELETE /api/courses/:id arrives
CDeleteStart(p) ==
  /\ scope = "courses"
  /\ Free(p)
  /\ \E id \in CourseIds :
       req' = [req EXCEPT ![p] =
                 [IdleReq EXCEPT !.kind = "cdelete", !.pc = "find", !.id = id]]
  /\ UNCHANGED <<scope, store, nextUrl, projects, members, services, pending, up, courses, call, admins, leads, lreq, keyop>>

\* Course.findById, 404 when absent
CDeleteFind(p) ==
  /\ At(p, "cdelete", "find")
  /\ LET course == courses[req[p].id]
     IN req' = [req EXCEPT ![p] =
          IF course = NoCourse THEN Done(@, 404)
          ELSE [@ EXCEPT !.pc = "delfile", !.oldUrl = course.image]]
  /\ UNCHANGED <<scope, store, nextUrl, projects, members, services, pending, up, courses, call, admins, leads, lreq, keyop>>

\* 1. delete image from storage: an awaited deleteFile
CDeleteFile(p) ==
  /\ At(p, "cdelete", "delfile")
  /\ LET r == req[p]
         del == Truthy(r.oldUrl) /\ InBucket(r.oldUrl)
     IN \E ok \in BOOLEAN :
          /\ store' = IF del THEN deleteFile(store, r.oldUrl, ok) ELSE store
          /\ req' = [req EXCEPT ![p] =
               [r EXCEPT !.pc = "db",
                  !.log = IF del
                          THEN Append(@, Del(<<r.oldUrl>>, "delete", Answer(ok)))
                          ELSE @]]
  /\ UNCHANGED <<scope, nextUrl, projects, members, services, pending, up, courses, call, admins, leads, lreq, keyop>>

\* 2. course.deleteOne(), answer 200; the catch answers 500
CDeleteOne(p) ==
  /\ At(p, "cdelete", "db")
  /\ \E ok \in BOOLEAN :
       IF ok
       THEN /\ courses' = [courses EXCEPT ![req[p].id] = NoCourse]
            /\ req' = [req EXCEPT ![p] =
                 Done([@ EXCEPT !.log = Append(@, Ev("dbOk", <<>>, "deleteOne"))],
                      200)]
       ELSE /\ req' = [req EXCEPT ![p] =
                 Done([@ EXCEPT !.log = Append(@, Ev("dbFail", <<>>, "deleteOne"))],
                      500)]
            /\ UNCHANGED courses
  /\ UNCHANGED <<scope, store, nextUrl, projects, members, services, pending, up, call, admins, leads, lreq, keyop>>

----------------------------------------------------------------------------
(* routes/services.js: uploadImageToSupabase, step by step, in the frame up *)

\* uploadImageToSupabase(supabase, file, filePath) is called
IconUploadCall ==
  /\ scope = "upload"
  /\ up.pc \in {"idle", "returned", "thrown"}
  /\ nextUrl <= MaxUrls
  /\ \E length \in BufferLengths :
       up' = [IdleUp EXCEPT !.pc = "sharp", !.length = length,
                !.fileName = nextUrl]
  /\ nextUrl' = nextUrl + 1
  /\ UNCHANGED <<scope, store, projects, members, services, req, pending, courses, call, admins, leads, lreq, keyop>>

\* await sharp(file.buffer).resize(800, 800).jpeg({quality: 85}).toBuffer(),
\* for a buffer of any length; when sharp throws, the catch rethrows
IconSharp ==
  /\ up.pc = "sharp"
  /\ \E sharpOk \in BOOLEAN :
       up' = IF sharpOk
             THEN [up EXCEPT !.pc = "iconUpload", !.processed = "jpeg",
                     !.trace = Append(@, Tr("sharp", up.length))]
             ELSE [up EXCEPT !.pc = "thrown",
                     !.trace = Append(@, Tr("sharpFail", up.length))]
  /\ UNCHANGED <<scope, store, nextUrl, projects, members, services, req, pending, courses, call, admins, leads, lreq, keyop>>

\* await storage.upload(filePath, compressedBuffer, {upsert: false}); on
\* success return the public URL, on an error result or an exception throw
IconStore ==
  /\ up.pc = "iconUpload"
  /\ \E out \in {"ok", "error", "throw"} :
       IF out = "ok"
       THEN /\ store' = store \cup {up.fileName}
            /\ up' = [up EXCEPT !.pc = "returned", !.result = up.fileName,
                        !.trace = Append(@, Tr("ok", 1))]
       ELSE /\ up' = [up EXCEPT !.pc = "thrown",
                        !.trace = Append(@, Tr("fail", 1))]
            /\ UNCHANGED store
  /\ UNCHANGED <<scope, nextUrl, projects, members, services, req, pending, courses, call, admins, leads, lreq, keyop>>

----------------------------------------------------------------------------
(* routes/admin.js: POST /api/admin/register.  admins is the number of      *)
(* stored Admin documents with role 'superadmin'.                            *)

\* POST /api/admin/register arrives
RegisterStart(p) ==
  /\ scope = "admin"
  /\ Free(p)
  /\ req' = [req EXCEPT ![p] = [IdleReq EXCEPT !.kind = "register", !.pc = "count"]]
  /\ UNCHANGED <<scope, store, nextUrl, projects, members, services, pending, up, courses, call, admins, leads, lreq, keyop>>

\* await Admin.countDocuments({role: 'superadmin'}); 403 when adminCount > 0
RegisterCount(p) ==
  /\ At(p, "register", "count")
  /\ req' = [req EXCEPT ![p] =
               IF admins > 0 THEN Done([@ EXCEPT !.adminCount = admins], 403)
               ELSE [@ EXCEPT !.pc = "create", !.adminCount = admins]]
  /\ UNCHANGED <<scope, store, nextUrl, projects, members, services, pending, up, courses, call, admins, leads, lreq, keyop>>

\* await Admin.create({..., role: 'superadmin'}); the catch answers 400 for a
\* ValidationError or a duplicate key (code 11000) and 500 otherwise
RegisterCreate(p) ==
  /\ At(p, "register", "create")
  /\ \E out \in {"ok", "ValidationError", "Error"} :
       IF out = "ok"
       THEN /\ admins' = admins + 1
            /\ req' = [req EXCEPT ![p] =
                 [@ EXCEPT !.pc = "fetch",
                    !.log = Append(@, Ev("dbOk", <<>>, "create"))]]
       ELSE /\ req' = [req EXCEPT ![p] =
                 Done([@ EXCEPT !.error = out,
                         !.log = Append(@, Ev("dbFail", <<>>, "create"))],
                      IF out = "ValidationError" THEN 400 ELSE 500)]
            /\ UNCHANGED admins
  /\ UNCHANGED <<scope, store, nextUrl, projects, members, services, pending, up, courses, call, leads, lreq, keyop>>

\* await Admin.findById(admin._id).populate('workerProfile'), then
\* sendTokenResponse(populatedAdmin, 201, res); an error is answered 500
RegisterFetch(p) ==
  /\ At(p, "register", "fetch")
  /\ \E ok \in BOOLEAN :
       req' = [req EXCEPT ![p] = Done(@, IF ok THEN 201 ELSE 500)]
  /\ UNCHANGED <<scope, store, nextUrl, projects, members, services, pending, up, courses, call, admins, leads, lreq, keyop>>

----------------------------------------------------------------------------
(* models/Lead.js and routes/leads.js.  leads[id] is the stored Lead        *)
(* document: info stands for the client's fields (fullName, email,          *)
(* phoneNumber, inquiryType, message, source), 0 is null for assignedTo,    *)
(* contactedAt and closedAt.  lreq is the frame of the handler of a lead    *)
(* request: role and workerProfile are those of req.admin, body is          *)
(* req.body, lead is the document findById returned.                        *)

LeadIds == {1}
AdminId == 3                      \* req.admin._id
Assignees == {1, AdminId}         \* ids a lead is assigned to
Dates == {1}                      \* what new Date() returns
Statuses == {"New", "Contacted", "InProgress", "Closed"}
Undefined == "undefined"          \* a text field the body does not hold
Absent == -1                      \* an id or date field the body does not hold

NoLead ==
  [present |-> FALSE, status |-> "New", priority |-> "Medium", notes |-> "",
   info |-> "a", assignedTo |-> 0, contactedAt |-> 0, closedAt |-> 0]

NoBody ==
  [status |-> Undefined, priority |-> Undefined, notes |-> Undefined,
   info |-> Undefined, assignedTo |-> Absent, contactedAt |-> Absent,
   closedAt |-> Absent]

\* the bodies of the PUT requests: any status, with or without priority and
\* notes, together with none, one or all of the other fields (a date in a
\* body is 2)
PutBodies ==
  {[NoBody EXCEPT !.status = st, !.priority = pn[1], !.notes = pn[2],
                  !.info = other[1], !.assignedTo = other[2],
                  !.contactedAt = other[3], !.closedAt = other[3]] :
     st \in Statuses \cup {Undefined},
     pn \in {<<Undefined, Undefined>>, <<"High", "n">>},
     other \in {<<Undefined, Absent, Absent>>, <<Undefined, AdminId, Absent>>,
                <<"b", 1, 2>>}}

\* the bodies of the create requests, as far as status and assignedTo go
CreateBodies ==
  {[NoBody EXCEPT !.status = st, !.assignedTo = a] :
     st \in Statuses \cup {Undefined}, a \in Assignees \cup {Absent}}

IdleLead ==
  [kind |-> "none", pc |-> "idle", id |-> 0, role |-> "none",
   workerProfile |-> 0, body |-> NoBody, lead |-> NoLead, status |-> 0]

\* leadSchema.pre('save'): when status is modified, set the timestamp of the
\* new status if it is not set
preSave(doc, statusModified, date) ==
  IF ~statusModified THEN doc
  ELSE [doc EXCEPT
          !.contactedAt = IF doc.status = "Contacted" /\ @ = 0 THEN date ELSE @,
          !.closedAt = IF doc.status = "Closed" /\ @ = 0 THEN date ELSE @]

\* leadSchema.methods.markAsContacted, up to its save()
markAsContacted(doc, date) ==
  [doc EXCEPT !.status = "Contacted",
              !.contactedAt = IF @ = 0 THEN date ELSE @]

\* leadSchema.methods.closeLead, up to its save()
closeLead(doc, date) ==
  [doc EXCEPT !.status = "Closed",
              !.closedAt = IF @ = 0 THEN date ELSE @]

\* req.admin.workerProfile?._id || req.admin._id
adminWorkerId(r) == IF r.workerProfile # 0 THEN r.workerProfile ELSE AdminId

\* the test that takes every assigned lead for the admin's own
isAssignedToAnyone(r, lead) == lead.assignedTo # 0

\* lead.assignedTo && lead.assignedTo.toString() === adminWorkerId.toString()
isAssignedToAdmin(r, lead) ==
  lead.assignedTo # 0 /\ lead.assignedTo = adminWorkerId(r)

\* the update document of the PUT: status, priority and notes for a regular
\* admin, every field of the body for a superadmin
updateData(r) ==
  IF r.role = "admin"
  THEN [NoBody EXCEPT !.status = r.body.status, !.priority = r.body.priority,
                      !.notes = r.body.notes]
  ELSE r.body

\* Lead.findByIdAndUpdate(id, update): sets the fields the update holds (no
\* save hook runs); a document that does not exist stays absent
ApplyLeadUpdate(doc, update) ==
  IF ~doc.present THEN doc
  ELSE [doc EXCEPT
          !.status = IF update.status # Undefined THEN update.status ELSE @,
          !.priority = IF update.priority # Undefined THEN update.priority ELSE @,
          !.notes = IF update.notes # Undefined THEN update.notes ELSE @,
          !.info = IF update.info # Undefined THEN update.info ELSE @,
          !.assignedTo = IF update.assignedTo # Absent THEN update.assignedTo ELSE @,
          !.contactedAt = IF update.contactedAt # Absent THEN update.contactedAt ELSE @,
          !.closedAt = IF update.closedAt # Absent THEN update.closedAt ELSE @]

\* a request with a valid token arrives at one of the admin routes of a
\* lead; authorize('superadmin') answers 403 to a regular admin
LStart ==
  /\ scope = "leads"
  /\ lreq.pc \in {"idle", "done"}
  /\ \E kind \in {"create", "put", "contact", "close", "assign"},
        id \in LeadIds, role \in {"admin", "superadmin"},
        workerProfile \in {0, 1}, body \in PutBodies \cup CreateBodies :
       /\ kind = "create" => ~leads[id].present /\ body \in CreateBodies
       /\ kind = "put" => body \in PutBodies
       /\ kind = "assign" => body \in CreateBodies /\ body.status = Undefined
       /\ kind \in {"contact", "close"} => body = NoBody
       /\ role = "superadmin" => workerProfile = 0
       /\ LET r == [IdleLead EXCEPT !.kind = kind, !.id = id, !.role = role,
                      !.workerProfile = workerProfile, !.body = body]
          IN lreq' = IF kind \in {"create", "assign"} /\ role = "admin"
                     THEN [r EXCEPT !.pc = "done", !.status = 403]
                     ELSE [r EXCEPT !.pc = IF kind \in {"create", "assign"}
                                          THEN "write" ELSE "find"]
  /\ UNCHANGED <<scope, store, nextUrl, projects, members, services, req, pending, up, courses, call, admins, leads, keyop>>

\* POST /admin/create: Lead.create({..., status: status || 'New',
\* assignedTo: assignedTo || null}), whose save runs the hook with status
\* modified; answer 201, or 500 when the create fails
LCreate ==
  /\ lreq.kind = "create" /\ lreq.pc = "write"
  /\ \E ok \in BOOLEAN, date \in Dates :
       IF ok
       THEN LET doc == [NoLead EXCEPT
                          !.present = TRUE,
                          !.status = IF lreq.body.status # Undefined
                                     THEN lreq.body.status ELSE "New",
                          !.assignedTo = IF lreq.body.assignedTo # Absent
                                         THEN lreq.body.assignedTo ELSE 0]
            IN /\ leads' = [leads EXCEPT ![lreq.id] = preSave(doc, TRUE, date)]
               /\ lreq' = [lreq EXCEPT !.pc = "done", !.status = 201]
       ELSE /\ lreq' = [lreq EXCEPT !.pc = "done", !.status = 500]
            /\ UNCHANGED leads
  /\ UNCHANGED <<scope, store, nextUrl, projects, members, services, req, pending, up, courses, call, admins, keyop>>

\* PATCH /admin/:id/assign: findByIdAndUpdate(id, {assignedTo: assignedTo ||
\* null}); 404 for a null result, 500 when the update fails
LAssign ==
  /\ lreq.kind = "assign" /\ lreq.pc = "write"
  /\ \E ok \in BOOLEAN :
       IF ok
       THEN /\ leads' = [leads EXCEPT ![lreq.id] =
                 IF ~@.present THEN @
                 ELSE [@ EXCEPT !.assignedTo =
                         IF lreq.body.assignedTo # Absent
                         THEN lreq.body.assignedTo ELSE 0]]
            /\ lreq' = [lreq EXCEPT !.pc = "done", !.lead = leads[lreq.id],
                          !.status = IF leads[lreq.id].present THEN 200 ELSE 404]
       ELSE /\ lreq' = [lreq EXCEPT !.pc = "done", !.status = 500]
            /\ UNCHANGED leads
  /\ UNCHANGED <<scope, store, nextUrl, projects, members, services, req, pending, up, courses, call, admins, keyop>>

\* PUT /admin/:id, PATCH /admin/:id/contact and /close: Lead.findById (404
\* when absent, 500 when it fails), then the permission check for a regular
\* admin (403)
LFind ==
  /\ lreq.kind \in {"put", "contact", "close"} /\ lreq.pc = "find"
  /\ \E ok \in BOOLEAN :
       LET lead == leads[lreq.id]
       IN lreq' =
            IF ~ok THEN [lreq EXCEPT !.pc = "done", !.status = 500]
            ELSE IF ~lead.present THEN [lreq EXCEPT !.pc = "done", !.status = 404]
            ELSE IF lreq.role = "admin" /\ ~isAssignedToAdmin(lreq, lead)
            THEN [lreq EXCEPT !.pc = "done", !.status = 403, !.lead = lead]
            ELSE [lreq EXCEPT !.pc = "write", !.lead = lead]
  /\ UNCHANGED <<scope, store, nextUrl, projects, members, services, req, pending, up, courses, call, admins, leads, keyop>>

\* PUT /admin/:id: Lead.findByIdAndUpdate(id, updateData, {runValidators}),
\* answer 200, or 500 when the update fails
LPutUpdate ==
  /\ lreq.kind = "put" /\ lreq.pc = "write"
  /\ \E ok \in BOOLEAN :
       IF ok
       THEN /\ leads' = [leads EXCEPT ![lreq.id] =
                           ApplyLeadUpdate(@, updateData(lreq))]
            /\ lreq' = [lreq EXCEPT !.pc = "done", !.status = 200]
       ELSE /\ lreq' = [lreq EXCEPT !.pc = "done", !.status = 500]
            /\ UNCHANGED leads
  /\ UNCHANGED <<scope, store, nextUrl, projects, members, services, req, pending, up, courses, call, admins, keyop>>

\* PATCH /admin/:id/contact and /close: lead.markAsContacted() or
\* lead.closeLead() on the document read, whose save runs the hook and
\* writes the document back; answer 200, or 500 when the save fails
LPatchSave ==
  /\ lreq.kind \in {"contact", "close"} /\ lreq.pc = "write"
  /\ \E ok \in BOOLEAN, date \in Dates :
       IF ok
       THEN LET doc == IF lreq.kind = "contact"
                       THEN markAsContacted(lreq.lead, date)
                       ELSE closeLead(lreq.lead, date)
            IN /\ leads' = [leads EXCEPT ![lreq.id] =
                    preSave(doc, doc.status # lreq.lead.status, date)]
               /\ lreq' = [lreq EXCEPT !.pc = "done", !.status = 200]
       ELSE /\ lreq' = [lreq EXCEPT !.pc = "done", !.status = 500]
            /\ UNCHANGED leads
  /\ UNCHANGED <<scope, store, nextUrl, projects, members, services, req, pending, up, courses, call, admins, keyop>>

----------------------------------------------------------------------------
(* Storage keys and public URLs as text.  A text is a sequence of pieces;   *)
(* BucketPath is the piece '<bucket>/' that deleteFile and deleteFiles      *)
(* split a URL by, and no other piece contains it.  keyop is the frame of   *)
(* one upload followed by one delete call on the URL it returned; in these  *)
(* runs the store holds keys as texts.                                      *)

BucketPath == "media/"
Pieces == {"x", " ", BucketPath}   \* what an original filename is made of
MaxName == 3                       \* pieces in an original filename

Names == UNION {[1..n -> Pieces] : n \in 1..MaxName}

IdleKey ==
  [pc |-> "idle", originalName |-> <<>>, key |-> <<>>, url |-> <<>>,
   fn |-> "none", paths |-> <<>>, out |-> "none"]

\* originalName.replace(/\s/g, '_')
cleanName(originalName) ==
  [i \in 1..Len(originalName) |->
     IF originalName[i] = " " THEN "_" ELSE originalName[i]]

\* generateUniqueFilename(originalName, type):
\* `projects/${timestamp}_${type}_${randomHash}_${cleanName}`
generateUniqueFilename(originalName) ==
  <<"projects/", "stamp_">> \o cleanName(originalName)

\* getPublicUrl(fileName): the bucket's public address followed by the key
publicUrl(fileName) == <<"origin/", BucketPath>> \o fileName

\* text.split(BucketPath): the texts between the occurrences of BucketPath
RECURSIVE splitText(_)
splitText(text) ==
  IF \A i \in 1..Len(text) : text[i] # BucketPath THEN <<text>>
  ELSE LET i == CHOOSE k \in 1..Len(text) :
                  /\ text[k] = BucketPath
                  /\ \A j \in 1..(k - 1) : text[j] # BucketPath
       IN <<SubSeq(text, 1, i - 1)>> \o splitText(SubSeq(text, i + 1, Len(text)))

\* deleteFile's path: fileUrl.split(`${bucket}/`).pop()
popPath(fileUrl) == splitText(fileUrl)[Len(splitText(fileUrl))]

\* deleteFiles' paths for one URL: parts[1] when parts.length > 1, else
\* null, which the filter drops
secondPaths(url) ==
  IF Len(splitText(url)) > 1 THEN <<splitText(url)[2]>> ELSE <<>>

\* uploadFile(buffer, generateUniqueFilename(file.originalname)) succeeds and
\* returns the public URL
KeyUpload ==
  /\ scope = "keys"
  /\ keyop.pc = "idle"
  /\ \E originalName \in Names :
       LET fileName == generateUniqueFilename(originalName)
       IN /\ store' = store \cup {fileName}
          /\ keyop' = [IdleKey EXCEPT !.pc = "uploaded",
                         !.originalName = originalName, !.key = fileName,
                         !.url = publicUrl(fileName)]
  /\ UNCHANGED <<scope, nextUrl, projects, members, services, req, pending, up, courses, call, admins, leads, lreq>>

\* deleteFile(url) or deleteFiles([url]) is called on the URL and derives
\* the paths to remove
KeyDerive ==
  /\ keyop.pc = "uploaded"
  /\ \E fn \in {"deleteFile", "deleteFiles"} :
       keyop' = [keyop EXCEPT !.pc = "remove", !.fn = fn,
                   !.paths = IF fn = "deleteFile" THEN <<popPath(keyop.url)>>
                             ELSE secondPaths(keyop.url)]
  /\ UNCHANGED <<scope, store, nextUrl, projects, members, services, req, pending, up, courses, call, admins, leads, lreq>>

\* storage.from(bucket).remove(paths), made when paths is not empty
KeyRemove ==
  /\ keyop.pc = "remove"
  /\ \E ok \in BOOLEAN :
       /\ store' = IF ok /\ Len(keyop.paths) > 0
                   THEN store \ SeqToSet(keyop.paths) ELSE store
       /\ keyop' = [keyop EXCEPT !.pc = "done", !.out = Answer(ok)]
  /\ UNCHANGED <<scope, nextUrl, projects, members, services, req, pending, up, courses, call, admins, leads, lreq>>

----------------------------------------------------------------------------

Init ==
  /\ scope \in {"projects", "team", "services", "courses"}
  /\ store = {}
  /\ nextUrl = 1
  /\ projects = [i \in ProjectIds |-> NoProject]
  /\ members = [i \in MemberIds |-> NoMember]
  /\ services = [i \in ServiceIds |-> NoService]
  /\ req = [p \in {1} |-> IdleReq]
  /\ pending = {}
  /\ up = IdleUp
  /\ courses = [i \in CourseIds |-> NoCourse]
  /\ call = IdleCall
  /\ admins = 0
  /\ leads = [i \in LeadIds |-> NoLead]
  /\ lreq = IdleLead
  /\ keyop = IdleKey

Next ==
  \E p \in {1} :
    \/ PCreateStart(p)
    \/ PCreateParse(p)
    \/ PCreateMain(p)
    \/ PCreateGallery(p)
    \/ PInnerCatch(p)
    \/ PCreateSave(p)
    \/ POuterCatch(p)
    \/ PUpdateStart(p)
    \/ PUpdateFind(p)
    \/ PUpdateMain(p)
    \/ PUpdateGallery(p)
    \/ PUpdateDb(p)
    \/ PDeleteStart(p)
    \/ PDeleteFind(p)
    \/ PDeleteOne(p)
    \/ PDeleteSoft(p)
    \/ PGetStart(p)
    \/ PListFind(p)
    \/ PGetFind(p)
    \/ TCreateStart(p)
    \/ TCreateValidate(p)
    \/ TCreateUpload(p)
    \/ TCreateDb(p)
    \/ TCatch(p)
    \/ TUpdateStart(p)
    \/ TUpdateFind(p)
    \/ TUpdateUpload(p)
    \/ TUpdateDb(p)
    \/ TUpdateCleanup(p)
    \/ SCreateStart(p)
    \/ SCreateUpload(p)
    \/ SCreateSave(p)
    \/ SCatch(p)
    \/ SUpdateStart(p)
    \/ SUpdateFind(p)
    \/ SUpdateUpload(p)
    \/ SUpdateDeleteOld(p)
    \/ SUpdateDb(p)
    \/ TDeleteStart(p)
    \/ TDeleteFind(p)
    \/ TDeleteFile(p)
    \/ TDeleteOne(p)
    \/ SDeleteStart(p)
    \/ SDeleteFind(p)
    \/ SDeleteIcon(p)
    \/ SDeleteDb(p)
    \/ CCreateStart(p)
    \/ CCreateUpload(p)
    \/ CCreateDb(p)
    \/ CUpdateStart(p)
    \/ CUpdateFind(p)
    \/ CUpdateDeleteOld(p)
    \/ CUpdateUpload(p)
    \/ CUpdateDb(p)
    \/ CDeleteStart(p)
    \/ CDeleteFind(p)
    \/ CDeleteFile(p)
    \/ CDeleteOne(p)
    \/ AsyncCleanup

Spec == Init /\ [][Next]_vars

\* two update requests, one per handler, on a project that was created with
\* a main image and one gallery file
InitConc ==
  /\ scope = "projects"
  /\ store = {1, 2}
  /\ nextUrl = 3
  /\ projects = [i \in ProjectIds |-> NewProject(1, <<2>>)]
  /\ members = [i \in MemberIds |-> NoMember]
  /\ services = [i \in ServiceIds |-> NoService]
  /\ req = [p \in {1, 2} |-> IdleReq]
  /\ pending = {}
  /\ up = IdleUp
  /\ courses = [i \in CourseIds |-> NoCourse]
  /\ call = IdleCall
  /\ admins = 0
  /\ leads = [i \in LeadIds |-> NoLead]
  /\ lreq = IdleLead
  /\ keyop = IdleKey

NextConc ==
  \/ \E p \in {1, 2} :
       \/ req[p].pc = "idle" /\ PUpdateStart(p)
       \/ PUpdateFind(p)
       \/ PUpdateMain(p)
       \/ PUpdateGallery(p)
       \/ PInnerCatch(p)
       \/ PUpdateDb(p)
       \/ POuterCatch(p)
  \/ AsyncCleanup

SpecConc == InitConc /\ [][NextConc]_vars

\* calls of uploadFile, one after the other
InitUpload ==
  /\ scope = "upload"
  /\ store = {}
  /\ nextUrl = 1
  /\ projects = [i \in ProjectIds |-> NoProject]
  /\ members = [i \in MemberIds |-> NoMember]
  /\ services = [i \in ServiceIds |-> NoService]
  /\ req = [p \in {1} |-> IdleReq]
  /\ pending = {}
  /\ up = IdleUp
  /\ courses = [i \in CourseIds |-> NoCourse]
  /\ call = IdleCall
  /\ admins = 0
  /\ leads = [i \in LeadIds |-> NoLead]
  /\ lreq = IdleLead
  /\ keyop = IdleKey

NextUpload == UploadCall \/ UploadCompress \/ UploadStore \/ UploadWait

SpecUpload == InitUpload /\ [][NextUpload]_vars

\* one call of deleteFile or deleteFiles, on a bucket that holds objects for
\* some of the keys
InitDelete ==
  /\ scope = "storage"
  /\ store \in SUBSET (1..MaxUrls)
  /\ nextUrl = MaxUrls + 1
  /\ projects = [i \in ProjectIds |-> NoProject]
  /\ members = [i \in MemberIds |-> NoMember]
  /\ services = [i \in ServiceIds |-> NoService]
  /\ req = [p \in {1} |-> IdleReq]
  /\ pending = {}
  /\ up = IdleUp
  /\ courses = [i \in CourseIds |-> NoCourse]
  /\ call = IdleCall
  /\ admins = 0
  /\ leads = [i \in LeadIds |-> NoLead]
  /\ lreq = IdleLead
  /\ keyop = IdleKey

NextDelete ==
  \/ call.pc = "idle" /\ DeleteFileCall
  \/ call.pc = "idle" /\ DeleteFilesCall
  \/ StoreRemove

SpecDelete == InitDelete /\ [][NextDelete]_vars

\* calls of uploadFile and of uploadImageToSupabase, one after the other
NextIcon ==
  \/ UploadCall \/ UploadCompress \/ UploadStore \/ UploadWait
  \/ IconUploadCall \/ IconSharp \/ IconStore

SpecIcon == InitUpload /\ [][NextIcon]_vars

\* register requests served by two handlers, on a database with no admin
InitRegister ==
  /\ scope = "admin"
  /\ store = {}
  /\ nextUrl = 1
  /\ projects = [i \in ProjectIds |-> NoProject]
  /\ members = [i \in MemberIds |-> NoMember]
  /\ services = [i \in ServiceIds |-> NoService]
  /\ req = [p \in {1, 2} |-> IdleReq]
  /\ pending = {}
  /\ up = IdleUp
  /\ courses = [i \in CourseIds |-> NoCourse]
  /\ call = IdleCall
  /\ admins = 0
  /\ leads = [i \in LeadIds |-> NoLead]
  /\ lreq = IdleLead
  /\ keyop = IdleKey

NextRegister ==
  \E p \in {1, 2} :
    \/ RegisterStart(p)
    \/ RegisterCount(p)
    \/ RegisterCreate(p)
    \/ RegisterFetch(p)

SpecRegister == InitRegister /\ [][NextRegister]_vars

\* requests to the admin routes of a lead, one after the other
InitLeads ==
  /\ scope = "leads"
  /\ store = {}
  /\ nextUrl = 1
  /\ projects = [i \in ProjectIds |-> NoProject]
  /\ members = [i \in MemberIds |-> NoMember]
  /\ services = [i \in ServiceIds |-> NoService]
  /\ req = [p \in {1} |-> IdleReq]
  /\ pending = {}
  /\ up = IdleUp
  /\ courses = [i \in CourseIds |-> NoCourse]
  /\ call = IdleCall
  /\ admins = 0
  /\ leads = [i \in LeadIds |-> NoLead]
  /\ lreq = IdleLead
  /\ keyop = IdleKey

NextLeads == LStart \/ LCreate \/ LAssign \/ LFind \/ LPutUpdate \/ LPatchSave

SpecLeads == InitLeads /\ [][NextLeads]_vars

\* one upload and one delete call on its URL, on an empty bucket
InitKeys ==
  /\ scope = "keys"
  /\ store = {}
  /\ nextUrl = 1
  /\ projects = [i \in ProjectIds |-> NoProject]
  /\ members = [i \in MemberIds |-> NoMember]
  /\ services = [i \in ServiceIds |-> NoService]
  /\ req = [p \in {1} |-> IdleReq]
  /\ pending = {}
  /\ up = IdleUp
  /\ courses = [i \in CourseIds |-> NoCourse]
  /\ call = IdleCall
  /\ admins = 0
  /\ leads = [i \in LeadIds |-> NoLead]
  /\ lreq = IdleLead
  /\ keyop = IdleKey

NextKeys == KeyUpload \/ KeyDerive \/ KeyRemove

SpecKeys == InitKeys /\ [][NextKeys]_vars

----------------------------------------------------------------------------
(* What a handler's log says *)

Frames == {req[p] : p \in DOMAIN req}

Has(log, e) == \E i \in 1..Len(log) : log[i].e = e

\* the URLs handed to delete calls, call after call
RECURSIVE DeletedUrls(_)
DeletedUrls(log) ==
  IF log = <<>> THEN <<>>
  ELSE (IF Head(log).e = "delete" THEN Head(log).urls ELSE <<>>)
         \o DeletedUrls(Tail(log))

\* the URLs of the uploads that succeeded at the given site, in order
RECURSIVE UploadedAt(_, _)
UploadedAt(log, sites) ==
  IF log = <<>> THEN <<>>
  ELSE (IF Head(log).e = "upload" /\ Head(log).site \in sites
        THEN Head(log).urls ELSE <<>>) \o UploadedAt(Tail(log), sites)

Uploaded(log) == UploadedAt(log, {"main", "gal", "image", "icon"})

\* some delete call that the store answered with success was given url
Removed(log, url) ==
  \E i \in 1..Len(log) :
    log[i].e = "delete" /\ log[i].out = "ok" /\ url \in SeqToSet(log[i].urls)

ProjectUrls(project) == {project.mainImage} \cup SeqToSet(project.images)

----------------------------------------------------------------------------
(* Claims *)

\* C1: in project create and update the files are uploaded one at a time, the
\* main image before the gallery files; when the upload of a file fails, no
\* later file is uploaded and no database call is made, and when the request
\* ends every URL uploaded before the failure has been handed to deleteFiles
\* (and is gone from the store if the store answered a delete of it with
\* success), the answer is 500 and the stored project is as it was.
C1_UploadFailureRollsBack ==
  \A r \in Frames :
    r.kind \in {"pcreate", "pupdate"} =>
      /\ \A i, j \in 1..Len(r.log) :
           r.log[i].site = "main" /\ r.log[j].site = "gal" => i < j
      /\ \A k \in 1..Len(r.log) :
           r.log[k].e = "uploadFail" =>
             /\ \A j \in (k + 1)..Len(r.log) : r.log[j].e = "delete"
             /\ ~Has(r.log, "dbOk") /\ ~Has(r.log, "dbFail")
             /\ r.pc = "done" =>
                  /\ \A i \in 1..(k - 1) :
                       r.log[i].e = "upload" =>
                         /\ r.log[i].urls[1] \in SeqToSet(DeletedUrls(r.log))
                         /\ Removed(r.log, r.log[i].urls[1])
                              => r.log[i].urls[1] \notin store
                  /\ r.status = 500
                  /\ projects[r.id] = r.project

\* an update whose gallery upload failed after its new main image was
\* uploaded, and the main image is gone from the store
C1_Witness ==
  \E r \in Frames :
    /\ r.kind = "pupdate" /\ r.pc = "done"
    /\ InBucket(r.mainImage)
    /\ \E k \in 1..Len(r.log) : r.log[k].e = "uploadFail" /\ r.log[k].site = "gal"
    /\ r.mainImage \notin store

\* C2: in project update and team-member update every delete call that is
\* given the old main/profile image comes after the database update has
\* succeeded, and no such call is made when the database update fails.
C2_OldImageDeletedAfterCommit ==
  \A r \in Frames :
    r.kind \in {"pupdate", "tupdate"} =>
      LET old == IF r.kind = "pupdate" THEN r.project.mainImage ELSE r.oldUrl
          gives == {i \in 1..Len(r.log) :
                      r.log[i].e = "delete" /\ old \in SeqToSet(r.log[i].urls)}
      IN /\ \A i \in gives : \E j \in 1..(i - 1) : r.log[j].e = "dbOk"
         /\ Has(r.log, "dbFail") => gives = {}

\* a project update that replaced an uploaded main image: the update was
\* written, and the old image has been removed from the store after it
C2_Witness ==
  \E r \in Frames :
    /\ r.kind = "pupdate" /\ r.pc = "done" /\ r.status = 200
    /\ InBucket(r.mainImage) /\ InBucket(r.oldMainImage)
    /\ r.oldMainImage \notin store

\* C3: when the database update of a project update fails after its uploads
\* succeeded, the URLs handed to deletion are exactly the URLs this request
\* uploaded, no URL of the stored project is among them, the files of the
\* stored project are still in the store, and the stored project is unchanged.
C3_UpdateFailureRollsBackNewOnly ==
  \A r \in Frames :
    r.kind = "pupdate" /\ r.pc = "done" /\ Has(r.log, "dbFail") =>
      /\ DeletedUrls(r.log) = r.uploadedUrls
      /\ r.uploadedUrls = Uploaded(r.log)
      /\ SeqToSet(DeletedUrls(r.log)) \cap ProjectUrls(r.project) = {}
      /\ \A u \in ProjectUrls(r.project) : InBucket(u) => u \in store
      /\ projects[r.id] = r.project

\* a failed update that had uploaded a file and had been asked to drop a
\* gallery entry: the upload is gone, the entry is still there
C3_Witness ==
  \E r \in Frames :
    /\ r.kind = "pupdate" /\ r.pc = "done" /\ Has(r.log, "dbFail")
    /\ Len(r.uploadedUrls) > 0 /\ Len(r.imagesToDeleteLater) > 0
    /\ SeqToSet(r.uploadedUrls) \cap store = {}
    /\ SeqToSet(r.imagesToDeleteLater) \subseteq store

C5_RollbackExactlyOnce ==
  \A r \in Frames :
    r.kind \in {"pcreate", "pupdate"} /\ r.pc = "done" /\ r.status = 500 =>
      \A u \in SeqToSet(r.uploadedUrls) : Count(DeletedUrls(r.log), u) = 1

\* C6: between requests, every bucket URL in a stored project's mainImage or
\* images is the URL of an object in the store.
C6_StoredUrlsExist ==
  (\A p \in DOMAIN req : Free(p)) =>
    \A id \in ProjectIds :
      \A u \in ProjectUrls(projects[id]) : InBucket(u) => u \in store

\* a stored project with a gallery after an update that dropped a file, the
\* dropped file removed from the store and no delete call in flight
C6_Witness ==
  /\ \A p \in DOMAIN req : Free(p)
  /\ pending = {}
  /\ \E id \in ProjectIds :
       /\ Len(projects[id].images) > 0
       /\ \E u \in 1..(nextUrl - 1) :
            u \notin store /\ u \notin ProjectUrls(projects[id])
  /\ \E r \in Frames : r.kind = "pupdate" /\ r.status = 200
                        /\ Len(r.imagesToDeleteLater) > 0

\* C8: a project update that succeeds stores as gallery the client's
\* existingImages, in the client's order, followed by the URLs of the new
\* gallery files in upload order, and hands to the post-commit delete exactly
\* the old gallery URLs that are not in existingImages, plus the old main
\* image if and only if a new main image was uploaded.
C8_GalleryMerge ==
  \A r \in Frames :
    r.kind = "pupdate" /\ r.pc = "done" /\ r.status = 200 =>
      LET cleanup == {i \in 1..Len(r.log) :
                        r.log[i].e = "delete" /\ r.log[i].site = "cleanup"}
          scheduled == UNION {SeqToSet(r.log[i].urls) : i \in cleanup}
      IN /\ projects[r.id].images
              = r.existingImages \o UploadedAt(r.log, {"gal"})
         /\ scheduled
              = (SeqToSet(r.project.images) \ SeqToSet(r.existingImages))
                  \cup (IF UploadedAt(r.log, {"main"}) # <<>>
                        THEN {r.project.mainImage} ELSE {})
         /\ Cardinality(cleanup) <= 1
         /\ \A i \in cleanup : \A j \in 1..(i - 1) : r.log[j].e # "dbFail"

\* the gallery [A,B] updated with existingImages [B] and one new file D:
\* the gallery is [B,D] and A is scheduled for deletion
C8_Witness ==
  \E r \in Frames :
    /\ r.kind = "pupdate" /\ r.pc = "done" /\ r.status = 200
    /\ Len(r.project.images) = 2 /\ Len(r.existingImages) = 1
    /\ r.existingImages[1] = r.project.images[2]
    /\ Len(UploadedAt(r.log, {"gal"})) = 1
    /\ projects[r.id].images = r.existingImages \o UploadedAt(r.log, {"gal"})
    /\ r.imagesToDeleteLater = <<r.project.images[1]>>

\* C7: with two update requests of the same project in flight at a time,
\* whenever no request and no delete call is in flight every bucket URL in
\* the stored project's mainImage and images is the URL of an object in the
\* store.
C7_ConcurrentUpdatesKeepFiles ==
  ((\A p \in DOMAIN req : Free(p)) /\ pending = {}) =>
    \A id \in ProjectIds :
      \A u \in ProjectUrls(projects[id]) : InBucket(u) => u \in store

\* C9: uploadFile makes its attempts one after the other, numbered 1, 2, 3;
\* it returns the public URL at the first attempt that succeeds and makes no
\* attempt after it; it makes at most 3 attempts, and when the third fails it
\* throws that attempt's error; between two attempts it waits 2^attempt
\* seconds, and it does not wait after the last failed attempt.
C9_UploadRetries ==
  LET t == up.trace
      attempts == {i \in 1..Len(t) : t[i].e = "attempt"}
  IN /\ Cardinality(attempts) <= 3
     /\ \A i \in attempts :
          /\ t[i].n = Cardinality({j \in attempts : j <= i})
          /\ i > 1 => /\ t[i - 1] = Tr("wait", (2 ^ (t[i].n - 1)) * 1000)
                      /\ t[i - 2] = Tr("fail", t[i].n - 1)
     /\ \A i \in 1..Len(t) :
          /\ t[i].e \in {"ok", "fail"} => i > 1 /\ t[i - 1] = Tr("attempt", t[i].n)
          /\ t[i].e = "ok" => i = Len(t)
          /\ t[i].e = "wait" => t[i - 1].e = "fail" /\ t[i - 1].n < 3
          /\ t[i] = Tr("fail", 3) => i = Len(t)
     /\ up.pc = "returned" =>
          /\ t[Len(t)].e = "ok"
          /\ up.result = up.fileName /\ up.result \in store
     /\ up.pc = "thrown" =>
          /\ t[Len(t)] = Tr("fail", 3)
          /\ Cardinality(attempts) = 3
          /\ up.error = 3
          /\ up.result = NoUrl

\* three failed attempts with waits of 2 and 4 seconds between them, thrown
C9_Witness ==
  /\ up.pc = "thrown"
  /\ Len(up.trace) = 8
  /\ up.trace[3] = Tr("wait", 2000)
  /\ up.trace[6] = Tr("wait", 4000)

\* C10: in service update every delete call that is given the old icon comes
\* after the database update has succeeded, and when the database update
\* fails no delete call was given the old icon.
C10_OldIconDeletedAfterCommit ==
  \A r \in Frames :
    r.kind = "supdate" =>
      LET gives == {i \in 1..Len(r.log) :
                      r.log[i].e = "delete" /\ r.oldUrl \in SeqToSet(r.log[i].urls)}
      IN /\ \A i \in gives : \E j \in 1..(i - 1) : r.log[j].e = "dbOk"
         /\ Has(r.log, "dbFail") => gives = {}

\* C11: in course update with a new image file every delete call that is
\* given the old image comes after the new image was uploaded and after the
\* database update succeeded, and when the upload or the database update
\* fails the old image is still in the store while the stored course
\* references it.
C11_CourseOldImageDeletedAfterCommit ==
  \A r \in Frames :
    r.kind = "cupdate" /\ r.file =>
      LET gives == {i \in 1..Len(r.log) :
                      r.log[i].e = "delete" /\ r.oldUrl \in SeqToSet(r.log[i].urls)}
      IN /\ \A i \in gives :
              /\ \E j \in 1..(i - 1) : r.log[j].e = "upload"
              /\ \E j \in 1..(i - 1) : r.log[j].e = "dbOk"
         /\ (Has(r.log, "uploadFail") \/ Has(r.log, "dbFail")) => gives = {}

\* C12: a course create or update whose database write fails after its image
\* was uploaded ends with none of the files it uploaded in the store.
C12_CourseFailureLeavesNoFile ==
  \A r \in Frames :
    r.kind \in {"ccreate", "cupdate"} /\ r.pc = "done" /\ Has(r.log, "dbFail") =>
      \A u \in SeqToSet(Uploaded(r.log)) : u \notin store

\* C13: a project hard delete collects the main image and all gallery URLs of
\* the project it read; every delete call of the request is given exactly
\* those URLs and comes after deleteOne succeeded; when deleteOne fails no
\* delete call is made, the project is still stored and its files are still
\* in the store.
C13_HardDeleteRowFirst ==
  \A r \in Frames :
    r.kind = "pdelete" /\ r.permanent /\ r.project # NoProject =>
      LET collected == <<r.project.mainImage>> \o r.project.images
          dels == {i \in 1..Len(r.log) : r.log[i].e = "delete"}
      IN /\ r.imagesToDeleteLater = collected
         /\ \A i \in dels :
              /\ r.log[i].urls = collected
              /\ \E j \in 1..(i - 1) : r.log[j] = Ev("dbOk", <<>>, "deleteOne")
         /\ Cardinality(dels) <= 1
         /\ Has(r.log, "dbFail") =>
              /\ dels = {}
              /\ projects[r.id] = r.project
              /\ \A u \in ProjectUrls(r.project) : InBucket(u) => u \in store
         /\ r.pc = "done" /\ r.status = 200 =>
              /\ projects[r.id] = NoProject
              /\ DeletedUrls(r.log) = collected

\* a hard delete of a project with an uploaded main image and a gallery file:
\* the row is gone and then the store removed both files
C13_Witness ==
  \E r \in Frames :
    /\ r.kind = "pdelete" /\ r.permanent /\ r.pc = "done" /\ r.status = 200
    /\ InBucket(r.project.mainImage) /\ Len(r.project.images) > 0
    /\ ProjectUrls(r.project) \cap store = {}
    /\ projects[r.id] = NoProject

\* C14: in service, team-member and course delete every delete call that is
\* given an uploaded file comes after the entity's row was deleted, and when
\* the row deletion fails the entity's file is still in the store.
C14_RowDeletedBeforeFile ==
  \A r \in Frames :
    r.kind \in {"sdelete", "tdelete", "cdelete"} =>
      LET dels == {i \in 1..Len(r.log) :
                     r.log[i].e = "delete"
                       /\ \E u \in SeqToSet(r.log[i].urls) : InBucket(u)}
      IN /\ \A i \in dels : \E j \in 1..(i - 1) : r.log[j].e = "dbOk"
         /\ Has(r.log, "dbFail") => dels = {}

\* C15: a call of deleteFile or deleteFiles never throws to its caller,
\* whatever its argument and whether the store's remove succeeds, answers
\* with an error or throws; it returns, and it makes at most one remove call.
C15_DeleteNeverRaises ==
  /\ call.pc # "raised"
  /\ Len(call.removes) <= 1
  /\ call.out # "none" => call.pc = "returned" /\ Len(call.removes) = 1

\* a deleteFiles call whose remove threw, and a deleteFile call likewise,
\* have returned after their one remove call
C15_Witness ==
  /\ call.pc = "returned" /\ call.out = "throw"
  /\ call.fn = "deleteFiles" /\ Len(call.urls) > 1
  /\ call.removes = <<call.paths>>

\* C16: deleteFile called with a URL that does not carry the bucket path
\* makes no remove call to the store and returns.
C16_DeleteFileOutsideBucketIsNoOp ==
  (call.fn = "deleteFile" /\ Truthy(call.urls[1]) /\ ~InBucket(call.urls[1])) =>
    /\ call.pc = "returned"
    /\ call.removes = <<>>

\* C17: deleteFiles called with an array of URLs makes at most one remove
\* call; its key list is the keys of the URLs that carry the bucket path, in
\* the order of the array; it makes the call when some URL carries the bucket
\* path and makes no call for an empty array or when no URL carries it.
C17_DeleteFilesOneBatch ==
  (call.fn = "deleteFiles" /\ call.given
     /\ \A i \in 1..Len(call.urls) : Truthy(call.urls[i])) =>
    LET keys == SelectSeq(call.urls, InBucket)
    IN /\ Len(call.removes) <= 1
       /\ \A i \in 1..Len(call.removes) : call.removes[i] = keys
       /\ call.pc = "remove" => keys # <<>> /\ call.paths = keys
       /\ call.pc = "returned" =>
            Len(call.removes) = IF keys = <<>> THEN 0 ELSE 1

\* deleteFiles([B, placeholder, A]) has made one remove call with the keys
\* of B and A, in that order
C17_Witness ==
  /\ call.fn = "deleteFiles" /\ call.pc = "returned"
  /\ call.urls = <<2, Placeholder, 1>>
  /\ call.removes = << <<2, 1>> >>

\* the findById of an update or delete handler returned no document
ReadNothing(r) ==
  IF r.kind \in {"pupdate", "pdelete"} THEN r.project = NoProject
  ELSE ~Truthy(r.oldUrl)

\* the status a finished create, update or delete request is answered with,
\* told from the request and the outcomes of its uploads and database calls
Response(r) ==
  LET written == Has(r.log, "dbOk")
      failure == IF r.error = "ValidationError" THEN 400 ELSE 500
  IN CASE r.kind = "pcreate" -> IF written THEN 201 ELSE 500
       [] r.kind = "pupdate" ->
            IF ReadNothing(r) THEN 404 ELSE IF written THEN 200 ELSE 500
       [] r.kind = "pdelete" ->
            IF r.permanent /\ ReadNothing(r) THEN 404
            ELSE IF written THEN 200 ELSE 500
       [] r.kind = "tcreate" -> IF written THEN 201 ELSE 400
       [] r.kind = "tupdate" ->
            IF ReadNothing(r) THEN 404 ELSE IF written THEN 200 ELSE 400
       [] r.kind = "screate" -> IF written THEN 201 ELSE failure
       [] r.kind = "supdate" ->
            IF ReadNothing(r) THEN 404 ELSE IF written THEN 200 ELSE failure
       [] r.kind = "ccreate" -> IF written THEN 201 ELSE 500
       [] r.kind = "cupdate" ->
            IF ReadNothing(r) THEN 404 ELSE IF written THEN 200 ELSE 500
       [] r.kind \in {"tdelete", "sdelete", "cdelete"} ->
            IF ReadNothing(r) THEN 404 ELSE IF written THEN 200 ELSE 500

Writes == {"pcreate", "pupdate", "pdelete", "tcreate", "tupdate", "tdelete",
           "screate", "supdate", "sdelete", "ccreate", "cupdate", "cdelete"}

\* C18: the status a create, update or delete request is answered with is
\* told by the request and the outcomes of its uploads and database calls
\* alone, so it is the same whether a delete call the request makes
\* (a rollback or a delete of old files, awaited or not) succeeds or fails.
C18_ResponseIgnoresDeletes ==
  \A r \in Frames :
    r.kind \in Writes /\ r.pc = "done" => r.status = Response(r)

\* a team-member create answered 400 after its rollback delete failed, the
\* uploaded image still in the store
C18_Witness ==
  \E r \in Frames :
    /\ r.kind = "tcreate" /\ r.pc = "done" /\ r.status = 400
    /\ \E i \in 1..Len(r.log) : r.log[i].e = "delete" /\ r.log[i].out = "fail"
    /\ r.uploadedUrl \in store

\* C19: an update or delete request, hard or soft, for an id with no stored
\* entity, whose database calls all succeed, is answered 404 and has made no
\* upload and no delete call.
C19_MissingIdIs404 ==
  \A r \in Frames :
    LET missing == IF r.kind = "pdelete" /\ ~r.permanent
                   THEN projects[r.id] = NoProject
                   ELSE ReadNothing(r)
    IN r.kind \in {"pupdate", "pdelete", "tupdate", "tdelete", "supdate",
                    "sdelete", "cupdate", "cdelete"}
         /\ r.pc = "done" /\ missing /\ ~Has(r.log, "dbFail") =>
         /\ r.status = 404
         /\ ~Has(r.log, "upload") /\ ~Has(r.log, "uploadFail")
         /\ ~Has(r.log, "delete")

\* C20: a project soft delete changes no project's mainImage or images, makes
\* no upload and no delete call and leaves the store as it is; when it
\* succeeds on a stored project, the project no longer passes the filter of
\* the list and search queries and GET by id answers 404 for it; a list or
\* search result holds no deleted project and GET by id of a deleted
\* project is answered 404.
C20_SoftDeleteIsFlagOnly ==
  /\ [](\A r \in Frames :
          r.pc = "done" =>
            /\ r.kind \in {"plist", "psearch"} =>
                 \A id \in r.found :
                   projects[id] # NoProject /\ projects[id].status # "deleted"
            /\ r.kind = "pget" /\ projects[r.id].status = "deleted" =>
                 r.status = 404)
  /\ [][\A p \in DOMAIN req :
          (req[p].kind = "pdelete" /\ req[p].pc = "soft" /\ req'[p].pc = "done") =>
            /\ store' = store /\ pending' = pending /\ nextUrl' = nextUrl
            /\ ~Has(req'[p].log, "upload") /\ ~Has(req'[p].log, "delete")
            /\ \A id \in ProjectIds :
                 /\ projects'[id].mainImage = projects[id].mainImage
                 /\ projects'[id].images = projects[id].images
            /\ (req'[p].status = 200 /\ projects[req[p].id] # NoProject) =>
                 /\ projects'[req[p].id].status = "deleted"
                 /\ ~ListQuery(projects'[req[p].id])
                 /\ GetById(projects'[req[p].id]) = 404]_vars

\* GET by id of a soft-deleted project is answered 404 while the project's
\* uploaded main image and gallery file are still stored and in the store
C20_Witness ==
  \E r \in Frames :
    /\ r.kind = "pget" /\ r.pc = "done" /\ r.status = 404
    /\ projects[r.id].status = "deleted"
    /\ InBucket(projects[r.id].mainImage) /\ Len(projects[r.id].images) > 0
    /\ ProjectUrls(projects[r.id]) \subseteq store

\* C21: a service create whose required metadata (translations or order) is
\* missing has uploaded no file when the missing metadata is detected, and is
\* answered with a 400-class status.
C21_MissingMetadataIs400BeforeUpload ==
  \A r \in Frames :
    r.kind = "screate" /\ r.missing /\ ~r.badBody =>
      /\ r.pc \in {"catch", "done"} => Uploaded(r.log) = <<>>
      /\ r.pc = "done" => r.status \in 400..499

\* C22: a team-member or service update that is answered 200 and leaves the
\* entity with another image/icon URL than the uploaded file it had before
\* has handed that old file to a delete call.
C22_ChangedUrlDeletesOldFile ==
  \A r \in Frames :
    /\ r.kind \in {"tupdate", "supdate"}
    /\ r.pc = "done" /\ r.status = 200
    /\ InBucket(r.oldUrl) /\ r.url # r.oldUrl
    => r.oldUrl \in SeqToSet(DeletedUrls(r.log))

\* C23: every stored project's gallery holds at most as many URLs as one
\* request may carry gallery files (MaxGalleryFiles, 10 in the source), and
\* no create or update request uploads more than that many files plus one
\* main image.
C23_GalleryWithinLimit ==
  /\ \A id \in ProjectIds : Len(projects[id].images) <= MaxGalleryFiles
  /\ \A r \in Frames :
       r.kind \in {"pcreate", "pupdate"} =>
         Len(Uploaded(r.log)) <= MaxGalleryFiles + 1

\* C24: in project update and project hard delete the delete of the old
\* files is the last thing the handler does after the database write
\* succeeded, and the handler does not wait for its outcome: in every state
\* where the call is in the log, whether the store has not answered yet, has
\* answered with success or has answered with a failure, the request is
\* answered, with status 200.
C24_CleanupNotAwaited ==
  \A r \in Frames :
    r.kind \in {"pupdate", "pdelete"} =>
      \A i \in 1..Len(r.log) :
        r.log[i].e = "delete" /\ r.log[i].site = "cleanup" =>
          /\ r.log[i].out = "later"
          /\ i = Len(r.log) /\ i > 1 /\ r.log[i - 1].e = "dbOk"
          /\ r.pc = "done" /\ r.status = 200

\* a project update answered 200 while its deleteFiles call is still
\* pending, a file handed to the call still in the store
C24_Witness ==
  \E p \in DOMAIN req :
    LET r == req[p]
    IN /\ r.kind = "pupdate" /\ r.pc = "done" /\ r.status = 200
       /\ Len(r.log) > 0 /\ r.log[Len(r.log)].site = "cleanup"
       /\ [by |-> p, urls |-> r.log[Len(r.log)].urls] \in pending
       /\ SeqToSet(r.log[Len(r.log)].urls) \cap store # {}

C25_CompressionNeverFailsUpload ==
  /\ up.pc \in {"upload", "iconUpload"} =>
       /\ up.processed \in {"original", "jpeg"}
       /\ up.length < CompressFrom => up.processed = "original"
  /\ up.pc = "thrown" => up.trace[Len(up.trace)].e = "fail"

\* C26: at most one superadmin is ever created through registration, and a
\* register request that counted an existing superadmin is answered 403
\* and creates nothing.
C26_AtMostOneSuperadmin ==
  /\ admins <= 1
  /\ \A r \in Frames :
       r.kind = "register" /\ r.adminCount > 0 =>
         /\ r.log = <<>>
         /\ r.pc = "done" /\ r.status = 403

\* C28: a stored lead with status 'Contacted' has contactedAt set and one
\* with status 'Closed' has closedAt set, whatever operation gave it the
\* status; and a contact or close operation leaves a timestamp that was set
\* as it was.
C28_StatusSetsTimestamp ==
  /\ \A id \in LeadIds :
       leads[id].present =>
         /\ leads[id].status = "Contacted" => leads[id].contactedAt # 0
         /\ leads[id].status = "Closed" => leads[id].closedAt # 0
  /\ lreq.kind \in {"contact", "close"} /\ lreq.pc = "done" /\ lreq.status = 200 =>
       /\ lreq.lead.contactedAt # 0 =>
            leads[lreq.id].contactedAt = lreq.lead.contactedAt
       /\ lreq.lead.closedAt # 0 =>
            leads[lreq.id].closedAt = lreq.lead.closedAt

\* the fields of a lead other than status, priority and notes
OtherFields(doc) ==
  <<doc.present, doc.info, doc.assignedTo, doc.contactedAt, doc.closedAt>>

C30_UrlGivesBackKey ==
  /\ keyop.pc \in {"remove", "done"} => keyop.paths = <<keyop.key>>
  /\ keyop.pc = "done" /\ keyop.out = "ok" => keyop.key \notin store

====
